---- MODULE Spec2Model ----
(***************************************************************************)
(* State-machine model of the thinkcyber_server REST backend: the          *)
(* relational tables it writes and the route handlers that write them.     *)
(* A handler is split at the awaited SQL statements where another request  *)
(* or a failure can come in between; the statements of one step run        *)
(* without interruption.                                                   *)
(***************************************************************************)
EXTENDS Integers, Sequences, FiniteSets, TLC

(***************************************************************************)
(* Bounds of the model.                                                    *)
(***************************************************************************)
\* largest id the topic_modules / topic_videos sequences hand out
MaxModuleId == 4
MaxVideoId == 3
\* longest modules array of a body, and longest videos array of one module
MaxBodyModules == 2
MaxBodyVideos == 1

VARIABLES
    topics,     \* table topics:        id -> row
    modules,    \* table topic_modules: id -> row
    videos,     \* table topic_videos:  id -> row
    category,   \* table category:      id -> row
    subcategory,\* table subcategory:   id -> row
    seq,        \* the SERIAL sequences: the next id of each table
    homepage,   \* tables homepage, homepage_hero, _about, _contact, _faqs of a language
    users,      \* table users:         id -> row
    documents,  \* tables terms_conditions and privacy_policies: id -> row
    otp_verifications, \* table otp_verifications: id -> row
    now,        \* the clock the expiry of a code is read against
    req,        \* the request each connection slot is serving
    created     \* history: title, slug and checks of each topic POST /topics inserted

vars ==
    <<topics, modules, videos, category, subcategory, homepage, users, documents,
      otp_verifications, now, seq, req, created>>

\* the tables of the site's pages and users, which the routes of the catalogue
\* leave alone
site == <<homepage, users, documents, otp_verifications, now>>

\* the tables of the one-time codes and the clock
codes == <<otp_verifications, now>>

\* the category and site tables, which the topic and video routes leave alone
catalog == <<category, subcategory, site>>

(***************************************************************************)
(* Generic helpers.                                                        *)
(***************************************************************************)
EmptyFcn == [x \in {} |-> 0]

Restrict(f, S) == [x \in S |-> f[x]]

RECURSIVE SumOver(_, _)
SumOver(f, S) ==
    IF S = {} THEN 0
    ELSE LET x == CHOOSE y \in S : TRUE IN f[x] + SumOver(f, S \ {x})

Slots == {1, 2}

Idle == [pc |-> "idle"]

\* the response is sent; the slot serves the next request
Finish(s) ==
    /\ req[s].pc = "done"
    /\ req' = [req EXCEPT ![s] = Idle]
    /\ UNCHANGED <<topics, modules, videos, catalog, seq, created>>

(***************************************************************************)
(* A transaction on a dedicated client: the rows it has written and the    *)
(* rows it has deleted, not yet visible to the other connections.          *)
(***************************************************************************)
EmptyOv == [up |-> EmptyFcn, del |-> {}]

EmptyTx == [mods |-> EmptyOv, vids |-> EmptyOv]

\* what a statement of the transaction sees of a table
View(tbl, ov) ==
    LET ids == (DOMAIN tbl \cup DOMAIN ov.up) \ ov.del
    IN  [i \in ids |-> IF i \in DOMAIN ov.up THEN ov.up[i] ELSE tbl[i]]

OvPut(ov, id, row) == [ov EXCEPT !.up = (id :> row) @@ @]

OvDel(ov, ids) ==
    [up |-> Restrict(ov.up, DOMAIN ov.up \ ids), del |-> ov.del \cup ids]

\* COMMIT makes the transaction's writes the table's content
Commit(tbl, ov) == View(tbl, ov)

\* a ROLLBACK that keeps what the transaction wrote
RollbackKeepsWrites(tbl, ov) == View(tbl, ov)

\* ROLLBACK leaves the table as it was
Rollback(tbl, ov) == tbl

\* const client = await req.pool.connect(): the request holds a client of the
\* pool, not yet released, on which no ROLLBACK has been sent
Connect(r) == r @@ [client |-> [released |-> 0, rollback |-> "none"]]

\* a handler without the finally block
NoRelease(r) == r

\* finally { client.release() }
Release(r) == [r EXCEPT !.client.released = @ + 1]

\* catch (err) { await client.query('ROLLBACK'); throw err } finally { ... }: the
\* ROLLBACK is sent and may throw in its turn; the finally block runs either way
Caught(r, rollbackThrows) ==
    Release([r EXCEPT !.client.rollback = IF rollbackThrows THEN "failed" ELSE "done"])

\* the request of slot s ends in the catch block of its transaction. A ROLLBACK
\* throws when the connection is lost, and the server then ends the transaction
\* without its writes.
Catch(s, r) ==
    req' \in {[req EXCEPT ![s] = Caught(r, rollbackThrows)] : rollbackThrows \in BOOLEAN}

(***************************************************************************)
(* Statements of the topic PUT handler's transaction.                      *)
(***************************************************************************)
\* INSERT INTO topic_modules (... order_index, duration_minutes = 0 ...)
TxInsertModule(tx, mid, tid, order) ==
    [tx EXCEPT !.mods = OvPut(@, mid,
        [topic_id |-> tid, order_index |-> order, duration_minutes |-> 0])]

\* UPDATE topic_modules SET ..., order_index = $3 WHERE id = $4 AND topic_id = $5
TxUpdateModule(tx, mid, tid, order) ==
    LET vm == View(modules, tx.mods)
    IN  IF mid \in DOMAIN vm /\ vm[mid].topic_id = tid
        THEN [tx EXCEPT !.mods = OvPut(@, mid, [vm[mid] EXCEPT !.order_index = order])]
        ELSE tx

\* INSERT INTO topic_videos (topic_id, module_id, ..., duration_seconds, order_index ...)
TxInsertVideo(tx, vid, tid, mid, secs, order) ==
    [tx EXCEPT !.vids = OvPut(@, vid,
        [topic_id |-> tid, module_id |-> mid,
         duration_seconds |-> secs, order_index |-> order])]

\* UPDATE topic_videos SET ..., duration_seconds = $4, order_index = $5
\*   WHERE id = $8 AND module_id = $9
TxUpdateVideo(tx, vid, mid, secs, order) ==
    LET vv == View(videos, tx.vids)
    IN  IF vid \in DOMAIN vv /\ vv[vid].module_id = mid
        THEN [tx EXCEPT !.vids = OvPut(@, vid,
                [vv[vid] EXCEPT !.duration_seconds = secs, !.order_index = order])]
        ELSE tx

\* DELETE FROM topic_videos WHERE id = $1, for each id of existingVideoIds
TxDeleteVideos(tx, vids) ==
    [tx EXCEPT !.vids = OvDel(@, vids \cap DOMAIN View(videos, tx.vids))]

\* a reconciliation that leaves the modules the body did not name
TxDeleteModulesSkipped(tx, mids) == tx

\* DELETE FROM topic_modules WHERE id = $1, for each id of existingModuleIds;
\* the videos of a deleted module go with it (module_id ... ON DELETE CASCADE)
TxDeleteModules(tx, mids) ==
    LET vm == View(modules, tx.mods)
        vv == View(videos, tx.vids)
        gone == mids \cap DOMAIN vm
        cascade == {v \in DOMAIN vv : vv[v].module_id \in gone}
    IN  [mods |-> OvDel(tx.mods, gone), vids |-> OvDel(tx.vids, cascade)]

(***************************************************************************)
(* Request bodies of the topic PUT handler.                                *)
(***************************************************************************)
\* a body: the keys it carries and their values; modules is an array of
\* nModules entries, which the handler reads one by one
PutBody(keys, title, slug, description, nModules) ==
    [keys |-> keys,
     title |-> IF "title" \in keys THEN title ELSE <<>>,
     slug |-> IF "slug" \in keys THEN slug ELSE <<>>,
     description |-> IF "description" \in keys THEN description ELSE "",
     nModules |-> IF "modules" \in keys THEN nModules ELSE 0]

\* values of a module's or video's "order" field; 0 is an absent (falsy) order
OrderVals == {0, 5}

\* values of a video's "duration" field, in minutes
DurationVals == {3}

\* the id of a module or video entry: absent, a client placeholder ('new-...'),
\* a string that is no number ('abc'), a string or number that parseInt reads
\* as n without its being an integer ('1abc', 1.5), or a number
PayloadIds(maxId) ==
    {[kind |-> k, n |-> 0] : k \in {"none", "new", "bad"}}
        \cup {[kind |-> "prefixed", n |-> 1]}
        \cup {[kind |-> "num", n |-> i] : i \in 1..maxId}

\* an id that is neither a placeholder nor a numeric identifier
Malformed(id) == id.kind \in {"bad", "prefixed"}

\* a module entry; hasVideos: its videos field is an array, of nVideos entries
ModuleEntries ==
    {e \in [id : PayloadIds(MaxModuleId), order : OrderVals,
            hasVideos : BOOLEAN, nVideos : 0..MaxBodyVideos] :
        ~e.hasVideos => e.nVideos = 0}

VideoEntries ==
    [id : PayloadIds(MaxVideoId), order : OrderVals, duration : DurationVals]

\* moduleData.order || moduleIndex + 1
OrderOr(order, index) == IF order # 0 THEN order ELSE index + 1

\* videoData.duration ? parseInt(videoData.duration) * 60 : 0
DurationSeconds(duration) == IF duration # 0 THEN duration * 60 ELSE 0

(***************************************************************************)
(* Slugs. A title and a slug are sequences of one-character strings.       *)
(***************************************************************************)
Lower(c) == IF c = "A" THEN "a" ELSE IF c = "B" THEN "b" ELSE IF c = "C" THEN "c" ELSE c

\* the characters [a-z0-9 -] among those the titles of the model use
SlugChars ==
    {"a", "b", "c", "o", "p", "y", "0", "1", "2", "3", "4", "5", "6", "7", "8", "9", " ",
     "-"}

RECURSIVE DropRun(_, _)
DropRun(s, C) ==
    IF s # <<>> /\ Head(s) \in C THEN DropRun(Tail(s), C) ELSE s

\* replace(/C+/g, r): every maximal run of characters of C becomes one r
RECURSIVE ReplaceRuns(_, _, _)
ReplaceRuns(s, C, r) ==
    IF s = <<>> THEN <<>>
    ELSE IF Head(s) \in C THEN <<r>> \o ReplaceRuns(DropRun(s, C), C, r)
    ELSE <<Head(s)>> \o ReplaceRuns(Tail(s), C, r)

\* replace(/^-|-$/g, '')
TrimHyphens(s) ==
    LET a == IF s # <<>> /\ Head(s) = "-" THEN Tail(s) ELSE s
    IN  IF a # <<>> /\ a[Len(a)] = "-" THEN SubSeq(a, 1, Len(a) - 1) ELSE a

generateSlug(title) ==
    LET lower == [i \in 1..Len(title) |-> Lower(title[i])]
        kept == SelectSeq(lower, LAMBDA c : c \in SlugChars)
        hyphened == ReplaceRuns(kept, {" "}, "-")
        single == ReplaceRuns(hyphened, {"-"}, "-")
    IN  TrimHyphens(single)

\* the decimal digits of a counter
RECURSIVE Decimal(_)
Decimal(n) ==
    LET digit == <<"0", "1", "2", "3", "4", "5", "6", "7", "8", "9">>[(n % 10) + 1]
    IN  IF n < 10 THEN <<digit>> ELSE Decimal(n \div 10) \o <<digit>>

\* `${baseSlug}-${counter}`
Suffixed(baseSlug, counter) == baseSlug \o <<"-">> \o Decimal(counter)

\* while (true) { if no topic has slug: break; slug = `${baseSlug}-${counter}`; counter++ }
RECURSIVE SlugLoop(_, _, _, _)
SlugLoop(baseSlug, slug, counter, taken) ==
    IF slug \notin taken THEN slug
    ELSE SlugLoop(baseSlug, Suffixed(baseSlug, counter), counter + 1, taken)

(***************************************************************************)
(* PUT /api/topics/:id                                                     *)
(***************************************************************************)
\* the columns a body key may set (of allowedFields, those the model keeps)
AllowedFields == {"title", "slug", "description", "status"}

\* allowedFields, in full
TopicAllowedFields ==
    {"title", "description", "content", "slug", "category_id", "subcategory_id",
     "difficulty", "status", "is_featured", "is_free", "price", "duration_minutes",
     "thumbnail_url", "tags", "meta_title", "meta_description", "meta_keywords",
     "author_id", "emoji", "learning_objectives", "target_audience", "prerequisites"}

\* key.replace(/([A-Z])/g, '_$1').toLowerCase(), on the body keys of the model
SnakeCase(key) ==
    CASE key = "isFeatured" -> "is_featured"
      [] key = "viewCount" -> "view_count"
      [] key = "orderIndex" -> "order_index"
      [] key = "durationMinutes" -> "duration_minutes"
      [] key = "topicId" -> "topic_id"
      [] OTHER -> key

\* the column a body key of PUT /topics/:id stands for (the keys category,
\* subcategory and duration, whose column depends on the value, are not among
\* the body keys of the model)
TopicDbField(key) ==
    CASE key = "featured" -> "is_featured"
      [] key = "thumbnail" -> "thumbnail_url"
      [] OTHER -> SnakeCase(key)

\* if (allowedFields.includes(dbField)) updateFields.push(...)
IncludedFields(fields, allowed) == fields \cap allowed

\* the columns of the SET clause that PUT /topics/:id builds from the body
TopicUpdateFields(keys) ==
    IncludedFields({TopicDbField(key) : key \in keys}, TopicAllowedFields)

\* CHECK (status IN ('draft', 'published', 'archived'))
TopicStatuses == {"draft", "published", "archived"}

PutAbort(r) == [r EXCEPT !.pc = "done", !.status = 500, !.tx = EmptyTx, !.aborted = TRUE]

PutRequest(id, body, status, pc) ==
    [route |-> "PUT /topics/:id", pc |-> pc, id |-> id, body |-> body, status |-> status,
     baseSlug |-> <<>>, slug |-> <<>>, counter |-> 1,
     tx |-> EmptyTx, existingModuleIds |-> {}, existingVideoIds |-> {},
     moduleIndex |-> 0, videoIndex |-> 0, nVideos |-> 0, moduleId |-> 0, branch |-> "none",
     aborted |-> FALSE, updateFields |-> {},
     \* the number of entries with a malformed id the loops have come to
     malformed |-> 0,
     \* for the properties: whether the title changes, the slug and the tables
     \* before the request, the numeric module ids the body named, the ids minted,
     \* the order_index due to each new entry
     retitled |-> FALSE, oldSlug |-> <<>>,
     preModules |-> modules, preVideos |-> videos,
     payloadIds |-> {}, minted |-> <<>>, newOrders |-> <<>>]

\* SELECT id FROM topics WHERE slug = $1 [AND id != $2]
SlugInUse(tbl, slug, except) == \E t \in DOMAIN tbl \ except : tbl[t].slug = slug

\* a topics table without the UNIQUE constraint on slug
NoSlugConflict(tbl, id, slug) == FALSE

\* slug VARCHAR(255) UNIQUE NOT NULL: writing slug into row id would violate it
SlugConflict(tbl, id, slug) == \E t \in DOMAIN tbl \ {id} : tbl[t].slug = slug

\* another connection's open transaction has inserted a topic with this slug: a
\* statement that writes the slug waits for that transaction to end
SlugHeld(s, slug) ==
    \E o \in Slots \ {s} :
        req[o].pc \in {"createModules", "createVideos"} /\ req[o].slug = slug

\* a SET clause that writes the slug whatever the body's keys
SetSlugAlways(row, keys, slug) == [row EXCEPT !.slug = slug]

\* "slug = $n" is in the SET clause when updateData has the key slug
SetSlug(row, keys, slug) == IF "slug" \in keys THEN [row EXCEPT !.slug = slug] ELSE row

\* SELECT * FROM topics WHERE id = $1; the title decides whether the slug loop runs
PutReceive(s, id, body) ==
    /\ req[s].pc = "idle"
    /\ UNCHANGED <<catalog, created>>
    /\ IF id \notin DOMAIN topics
       THEN req' = [req EXCEPT ![s] = PutRequest(id, body, 404, "done")]
       ELSE LET retitled == "title" \in body.keys /\ body.title # <<>>
                                /\ body.title # topics[id].title
                baseSlug == IF retitled THEN generateSlug(body.title) ELSE <<>>
            IN  req' = [req EXCEPT ![s] =
                          [PutRequest(id, body, 0, IF retitled THEN "slug" ELSE "update")
                             EXCEPT !.retitled = retitled, !.oldSlug = topics[id].slug,
                                    !.baseSlug = baseSlug, !.slug = baseSlug]]
    /\ UNCHANGED <<topics, modules, videos, seq>>

\* one turn of the slug loop: SELECT id FROM topics WHERE slug = $1 AND id != $2
PutSlugCheck(s) ==
    /\ req[s].pc = "slug"
    /\ UNCHANGED <<catalog, created>>
    /\ LET r == req[s]
       IN  IF SlugInUse(topics, r.slug, {r.id})
           THEN req' = [req EXCEPT ![s] =
                          [r EXCEPT !.slug = Suffixed(r.baseSlug, r.counter),
                                    !.counter = @ + 1]]
           ELSE \* updateData.slug = slug
                req' = [req EXCEPT ![s] =
                          [r EXCEPT !.pc = "update",
                                    !.body = [@ EXCEPT !.keys = @ \cup {"slug"},
                                                       !.slug = r.slug]]]
    /\ UNCHANGED <<topics, modules, videos, seq>>

\* the SET clause from the allow-listed keys of updateData, then UPDATE topics
PutUpdate(s) ==
    /\ req[s].pc = "update"
    /\ UNCHANGED <<catalog, created>>
    /\ LET r == req[s]
           body == r.body
           \* the request once the SET clause is built
           q == [r EXCEPT !.updateFields = TopicUpdateFields(body.keys)]
           next == IF "modules" \in body.keys THEN "begin" ELSE "done"
       IN  IF TopicUpdateFields(body.keys) = {}
           THEN /\ req' = [req EXCEPT ![s] = [q EXCEPT !.pc = "done", !.status = 400]]
                /\ UNCHANGED topics
           ELSE IF r.id \notin DOMAIN topics
           THEN \* the UPDATE matches no row and the response reads an undefined topic
                /\ req' = [req EXCEPT ![s] = [q EXCEPT !.pc = next, !.status = 500]]
                /\ UNCHANGED topics
           ELSE LET old == topics[r.id]
                    set == [old EXCEPT
                              !.title = IF "title" \in body.keys THEN body.title ELSE @,
                              !.description = IF "description" \in body.keys
                                              THEN body.description ELSE @,
                              !.status = IF "status" \in body.keys
                                         THEN body.status ELSE @]
                    row == SetSlug(set, body.keys, body.slug)
                IN  /\ ~SlugHeld(s, row.slug)
                    /\ IF SlugConflict(topics, r.id, row.slug)
                          \/ row.status \notin TopicStatuses
                       THEN \* the UPDATE throws: duplicate key value, or the status check
                            /\ req' = [req EXCEPT ![s] =
                                         [q EXCEPT !.pc = "done", !.status = 500]]
                            /\ UNCHANGED topics
                       ELSE /\ topics' = [topics EXCEPT ![r.id] = row]
                            /\ req' = [req EXCEPT ![s] =
                                         [q EXCEPT !.pc = next, !.status = 200]]
    /\ UNCHANGED <<modules, videos, seq>>

\* the module and video rows on which the open transaction of connection o holds
\* a row lock: the committed rows it has updated or deleted
HeldRows(o) ==
    IF req[o].pc \in {"modules", "videos"}
    THEN [mods |-> (DOMAIN req[o].tx.mods.up \cup req[o].tx.mods.del) \cap DOMAIN modules,
          vids |-> (DOMAIN req[o].tx.vids.up \cup req[o].tx.vids.del) \cap DOMAIN videos]
    ELSE [mods |-> {}, vids |-> {}]

\* a statement of connection s that writes these rows waits while another
\* connection's transaction holds the lock of one of them
MustWait(s, mods, vids) ==
    \E o \in Slots \ {s} :
        HeldRows(o).mods \cap mods # {} \/ HeldRows(o).vids \cap vids # {}

\* BEGIN; SELECT id FROM topic_modules WHERE topic_id = $1
PutBegin(s) ==
    /\ req[s].pc = "begin"
    /\ UNCHANGED <<catalog, created>>
    /\ LET vm == View(modules, req[s].tx.mods)
       IN  req' = [req EXCEPT ![s] =
                     [Connect(req[s]) EXCEPT
                        !.pc = "modules",
                        !.existingModuleIds =
                            {m \in DOMAIN vm : vm[m].topic_id = req[s].id}]]
    /\ UNCHANGED <<topics, modules, videos, seq>>

\* one iteration of the loop over updateData.modules, up to the entry's videos
PutModule(s, e) ==
    /\ req[s].pc = "modules"
    /\ UNCHANGED <<catalog, created>>
    /\ req[s].moduleIndex < req[s].body.nModules
    /\ LET r == req[s]
           order == OrderOr(e.order, r.moduleIndex)
           r1 == [r EXCEPT !.newOrders = IF e.id.kind \in {"none", "new"}
                                         THEN Append(@, order) ELSE @,
                           !.malformed = IF Malformed(e.id) THEN @ + 1 ELSE @,
                           !.videoIndex = 0,
                           !.nVideos = e.nVideos,
                           !.pc = IF e.hasVideos THEN "videos" ELSE "modules",
                           !.moduleIndex = IF e.hasVideos THEN @ ELSE @ + 1]
       IN  CASE e.id.kind = "new" ->
                 /\ seq.module <= MaxModuleId
                 /\ seq' = [seq EXCEPT !.module = @ + 1]
                 /\ req' = [req EXCEPT ![s] =
                       [r1 EXCEPT !.tx = TxInsertModule(r.tx, seq.module, r.id, order),
                                  !.moduleId = seq.module,
                                  !.minted = Append(@, seq.module),
                                  !.branch = "new"]]
             [] e.id.kind = "num" ->
                 /\ UNCHANGED seq
                 /\ ~MustWait(s, {e.id.n}, {})
                 /\ LET tx1 == TxUpdateModule(r.tx, e.id.n, r.id, order)
                        vv == View(videos, tx1.vids)
                    IN  req' = [req EXCEPT ![s] =
                          [r1 EXCEPT !.tx = tx1,
                                     !.moduleId = e.id.n,
                                     !.payloadIds = @ \cup {e.id.n},
                                     !.existingModuleIds = @ \ {e.id.n},
                                     !.existingVideoIds =
                                         IF e.hasVideos
                                         THEN {v \in DOMAIN vv : vv[v].module_id = e.id.n}
                                         ELSE {},
                                     !.branch = "existing"]]
             [] e.id.kind = "prefixed" ->
                 \* !isNaN(parseInt(moduleId)): the UPDATE is sent with the id as it
                 \* is and throws, invalid input syntax for type integer
                 /\ UNCHANGED seq
                 /\ Catch(s, PutAbort(r1))
             [] OTHER ->
                 \* neither branch is taken: the entry is passed over, videos and all
                 /\ UNCHANGED seq
                 /\ req' = [req EXCEPT ![s] =
                       [r1 EXCEPT !.pc = "modules", !.moduleIndex = r.moduleIndex + 1]]
    /\ UNCHANGED <<topics, modules, videos>>

\* one iteration of the loop over moduleData.videos
PutVideo(s, e) ==
    /\ req[s].pc = "videos"
    /\ UNCHANGED <<catalog, created>>
    /\ req[s].videoIndex < req[s].nVideos
    /\ LET r == req[s]
           order == OrderOr(e.order, r.videoIndex)
           secs == DurationSeconds(e.duration)
           vm == View(modules, r.tx.mods)
           r1 == [r EXCEPT !.malformed = IF Malformed(e.id) THEN @ + 1 ELSE @]
       IN  CASE e.id.kind = "new" ->
                 /\ seq.video <= MaxVideoId
                 /\ seq' = [seq EXCEPT !.video = @ + 1]
                 /\ \A o \in Slots \ {s} :
                       req[o].pc \in {"modules", "videos"} => r.moduleId \notin req[o].tx.mods.del
                 /\ IF r.moduleId \in DOMAIN vm
                    THEN req' = [req EXCEPT ![s] =
                           [r EXCEPT !.tx = TxInsertVideo(r.tx, seq.video, r.id,
                                                          r.moduleId, secs, order),
                                     !.videoIndex = @ + 1]]
                    ELSE \* module_id REFERENCES topic_modules(id): the INSERT throws
                         Catch(s, PutAbort(r))
             [] e.id.kind = "num" /\ r.branch = "existing" ->
                 /\ UNCHANGED seq
                 /\ ~MustWait(s, {}, {e.id.n})
                 /\ req' = [req EXCEPT ![s] =
                       [r EXCEPT !.tx = TxUpdateVideo(r.tx, e.id.n, r.moduleId, secs, order),
                                 !.existingVideoIds = @ \ {e.id.n},
                                 !.videoIndex = @ + 1]]
             [] e.id.kind = "prefixed" /\ r.branch = "existing" ->
                 \* the UPDATE of the video throws on the id in the same way
                 /\ UNCHANGED seq
                 /\ Catch(s, PutAbort(r1))
             [] OTHER ->
                 /\ UNCHANGED seq
                 /\ req' = [req EXCEPT ![s] = [r1 EXCEPT !.videoIndex = @ + 1]]
    /\ UNCHANGED <<topics, modules, videos>>

\* the videos array is exhausted: delete the module's videos the body did not name
PutVideosEnd(s) ==
    /\ req[s].pc = "videos"
    /\ UNCHANGED <<catalog, created>>
    /\ req[s].videoIndex = req[s].nVideos
    /\ req[s].branch = "existing" => ~MustWait(s, {}, req[s].existingVideoIds)
    /\ LET r == req[s]
       IN  req' = [req EXCEPT ![s] =
             [r EXCEPT !.tx = IF r.branch = "existing"
                              THEN TxDeleteVideos(r.tx, r.existingVideoIds)
                              ELSE r.tx,
                       !.pc = "modules",
                       !.moduleIndex = @ + 1]]
    /\ UNCHANGED <<topics, modules, videos, seq>>

\* the modules array is exhausted: delete the modules the body did not name, COMMIT
PutModulesEnd(s) ==
    /\ req[s].pc = "modules"
    /\ UNCHANGED <<catalog, created>>
    /\ req[s].moduleIndex = req[s].body.nModules
    /\ LET r == req[s]
           tx1 == TxDeleteModules(r.tx, r.existingModuleIds)
       IN  /\ ~MustWait(s, tx1.mods.del, tx1.vids.del)
           /\ modules' = Commit(modules, tx1.mods)
           /\ videos' = Commit(videos, tx1.vids)
           /\ req' = [req EXCEPT ![s] = Release([r EXCEPT !.pc = "done", !.tx = EmptyTx])]
    /\ UNCHANGED <<topics, seq>>

\* a statement of the transaction throws; catch: ROLLBACK, release, rethrow; the
\* outer catch answers 500
PutStatementError(s) ==
    /\ req[s].pc \in {"begin", "modules", "videos"}
    /\ UNCHANGED <<catalog, created>>
    /\ LET r == req[s]
       IN  /\ modules' = Rollback(modules, r.tx.mods)
           /\ videos' = Rollback(videos, r.tx.vids)
           /\ Catch(s, PutAbort(IF r.pc = "begin" THEN Connect(r) ELSE r))
    /\ UNCHANGED <<topics, seq>>

(***************************************************************************)
(* Initial state: two topics, each with one module holding one video.      *)
(***************************************************************************)
InitTopics ==
    (1 :> [title |-> <<"a">>, slug |-> <<"a">>, description |-> "d0",
           duration_minutes |-> 2, status |-> "draft", published_at |-> 0])
 @@ (2 :> [title |-> <<"b">>, slug |-> <<"b">>, description |-> "d0",
           duration_minutes |-> 2, status |-> "draft", published_at |-> 0])

InitModules ==
    (1 :> [topic_id |-> 1, order_index |-> 1, duration_minutes |-> 2])
 @@ (2 :> [topic_id |-> 2, order_index |-> 1, duration_minutes |-> 2])

InitVideos ==
    (1 :> [topic_id |-> 1, module_id |-> 1, duration_seconds |-> 120, order_index |-> 1])
 @@ (2 :> [topic_id |-> 2, module_id |-> 2, duration_seconds |-> 120, order_index |-> 1])

\* no homepage row of the language yet
InitHomepage ==
    [exists |-> FALSE, version |-> 0, hero |-> "", about |-> "", contact |-> "",
     faqs |-> <<>>]

\* one user, registered and not yet verified
InitUsers ==
    (1 :> [email |-> "e1", is_verified |-> FALSE, name |-> "n1", address |-> "a1",
           phone |-> "p1"])

\* no terms and no privacy policy yet
InitDocuments == [terms |-> EmptyFcn, privacy |-> EmptyFcn]

\* categories 1 and 2; category 1 has the subcategory 1
InitCategory ==
    (1 :> [name |-> "n", status |-> "Active", topics_count |-> 1])
 @@ (2 :> [name |-> "n", status |-> "Active", topics_count |-> 0])

InitSubcategory == (1 :> [name |-> "s1", category_id |-> 1])

Init ==
    /\ topics = InitTopics
    /\ modules = InitModules
    /\ videos = InitVideos
    /\ category = InitCategory
    /\ subcategory = InitSubcategory
    /\ homepage = InitHomepage
    /\ users = InitUsers
    /\ documents = InitDocuments
    /\ otp_verifications = EmptyFcn
    /\ now = 0
    /\ seq = [topic |-> 3, module |-> 3, video |-> 3, category |-> 3, subcategory |-> 2,
              terms |-> 1, privacy |-> 1, user |-> 2, otp |-> 1]
    /\ req = [s \in Slots |-> Idle]
    /\ created = <<>>

(***************************************************************************)
(* Spec: one PUT /api/topics/:id request, with or without a modules array, *)
(* followed from the initial tables through its transaction.               *)
(***************************************************************************)
ReconcileBodies ==
    {PutBody(k, <<>>, <<>>, "d1", n) :
        k \in SUBSET {"description", "modules"}, n \in 0..MaxBodyModules}

Next ==
    \/ \E id \in 1..3, b \in ReconcileBodies : PutReceive(1, id, b)
    \/ PutUpdate(1)
    \/ PutBegin(1)
    \/ \E e \in ModuleEntries : PutModule(1, e)
    \/ \E e \in VideoEntries : PutVideo(1, e)
    \/ PutVideosEnd(1)
    \/ PutModulesEnd(1)
    \/ PutStatementError(1)

Spec == Init /\ [][Next]_vars

(***************************************************************************)
(* Properties of the topic PUT handler.                                    *)
(***************************************************************************)
Range(q) == {q[i] : i \in 1..Len(q)}

TopicModules(tbl, t) == {m \in DOMAIN tbl : tbl[m].topic_id = t}

TopicVideos(tbl, t) == {v \in DOMAIN tbl : tbl[v].topic_id = t}

ModuleVideos(tbl, m) == {v \in DOMAIN tbl : tbl[v].module_id = m}

PutDone(s) == req[s].pc = "done" /\ req[s].route = "PUT /topics/:id"

\* the request updated the topic and committed its modules transaction
PutCommitted(s) ==
    PutDone(s) /\ req[s].status = 200 /\ "modules" \in req[s].body.keys

\* C1, as stated: after a successful PUT with a modules array the topic's module
\* ids are exactly the ids the payload named plus the ids minted for placeholders.
C1_PersistedIdsArePayloadIds ==
    \A s \in Slots : PutCommitted(s) =>
        TopicModules(modules, req[s].id) = req[s].payloadIds \cup Range(req[s].minted)

\* C1, amended: after a successful PUT with a modules array the topic's module ids
\* are exactly the payload ids that were modules of this topic before the request,
\* plus the ids minted for placeholders; no other module of the topic survives.
C1_PersistedIdsAreOwnPayloadIds ==
    \A s \in Slots : PutCommitted(s) =>
        TopicModules(modules, req[s].id) =
            (req[s].payloadIds \cap TopicModules(req[s].preModules, req[s].id))
                \cup Range(req[s].minted)

\* a committed PUT that minted a module and left a former module of the topic out
C1_Witness ==
    \E s \in Slots :
        /\ PutCommitted(s)
        /\ req[s].minted # <<>>
        /\ TopicModules(req[s].preModules, req[s].id) \ req[s].payloadIds # {}

\* C2: PUT with the body {modules: []} removes every module and every video of
\* the topic.
C2_EmptyModulesRemovesAll ==
    \A s \in Slots :
        (/\ PutDone(s)
         /\ req[s].id \in DOMAIN topics
         /\ req[s].body.keys = {"modules"}
         /\ req[s].body.nModules = 0)
        => /\ TopicModules(modules, req[s].id) = {}
           /\ TopicVideos(videos, req[s].id) = {}

\* C3: every module entry whose id is absent or a placeholder is inserted as a new
\* row, with the order it gives or else its 1-based array position as order_index.
C3_AbsentOrPlaceholderInserted ==
    \A s \in Slots : PutCommitted(s) =>
        /\ Len(req[s].minted) = Len(req[s].newOrders)
        /\ \A i \in 1..Len(req[s].minted) :
              /\ req[s].minted[i] \in DOMAIN modules
              /\ modules[req[s].minted[i]].order_index = req[s].newOrders[i]

\* C22: a module or video entry whose id is malformed is passed over: the step
\* that comes to it writes nothing, raises no error and leaves the transaction
\* open for the rest of the payload.
C22_MalformedEntrySkipped ==
    [][\A s \in Slots :
          (/\ req[s].pc \in {"modules", "videos"}
           /\ req'[s].pc # "idle"
           /\ req'[s].malformed = req[s].malformed + 1)
          => /\ ~req'[s].aborted
             /\ req'[s].status = req[s].status
             /\ req'[s].tx = req[s].tx]_vars

\* C24: a PUT /api/topics/:id leaves the module and video rows of every other
\* topic as they were, whatever module and video ids its payload names.
C24_OtherTopicsUntouched ==
    \A s \in Slots :
        PutDone(s)
        => LET r == req[s]
           IN  /\ \A m \in DOMAIN r.preModules :
                     r.preModules[m].topic_id # r.id
                     => m \in DOMAIN modules /\ modules[m] = r.preModules[m]
               /\ \A v \in DOMAIN r.preVideos :
                     r.preVideos[v].topic_id # r.id
                     => v \in DOMAIN videos /\ videos[v] = r.preVideos[v]

C5_DurationsRecomputed ==
    \A s \in Slots : PutCommitted(s) =>
        /\ \A m \in TopicModules(modules, req[s].id) :
              modules[m].duration_minutes =
                  SumOver([v \in DOMAIN videos |-> videos[v].duration_seconds],
                          ModuleVideos(videos, m)) \div 60
        /\ topics[req[s].id].duration_minutes =
              SumOver([m \in DOMAIN modules |-> modules[m].duration_minutes],
                      TopicModules(modules, req[s].id))

(***************************************************************************)
(* Video routes: /api/topics/:topicId/modules/:moduleId/videos...          *)
(***************************************************************************)
VideoRequest(route, topicId, moduleId, videoId, status) ==
    [route |-> route, pc |-> "done", topicId |-> topicId, moduleId |-> moduleId,
     videoId |-> videoId, status |-> status]

\* SELECT COALESCE(SUM(duration_seconds), 0) / 60 FROM topic_videos WHERE module_id = $1
ModuleDurationMinutes(vtbl, m) ==
    SumOver([v \in DOMAIN vtbl |-> vtbl[v].duration_seconds], ModuleVideos(vtbl, m)) \div 60

\* SELECT COALESCE(SUM(tm.duration_minutes), 0) FROM topic_modules tm WHERE tm.topic_id = $1
TopicDurationMinutes(mtbl, t) ==
    SumOver([m \in DOMAIN mtbl |-> mtbl[m].duration_minutes], TopicModules(mtbl, t))

\* SELECT COALESCE(MAX(order_index), 0) + 1 FROM topic_videos WHERE module_id = $1
NextVideoOrder(m) ==
    LET orders == {videos[v].order_index : v \in ModuleVideos(videos, m)}
    IN  IF orders = {} THEN 1 ELSE (CHOOSE o \in orders : \A p \in orders : p <= o) + 1

\* POST /topics/:topicId/modules/:moduleId/videos
VideoCreate(s, topicId, moduleId, titled, validType, durationSeconds, orderIndex) ==
    /\ req[s].pc = "idle"
    /\ UNCHANGED <<catalog, created>>
    /\ LET route == "POST /topics/:topicId/modules/:moduleId/videos"
       IN  IF ~titled
           THEN /\ req' = [req EXCEPT ![s] = VideoRequest(route, topicId, moduleId, 0, 400)]
                /\ UNCHANGED <<videos, seq>>
           ELSE IF ~(moduleId \in DOMAIN modules /\ modules[moduleId].topic_id = topicId)
           THEN /\ req' = [req EXCEPT ![s] = VideoRequest(route, topicId, moduleId, 0, 404)]
                /\ UNCHANGED <<videos, seq>>
           ELSE IF ~validType
           THEN /\ req' = [req EXCEPT ![s] = VideoRequest(route, topicId, moduleId, 0, 400)]
                /\ UNCHANGED <<videos, seq>>
           ELSE /\ seq.video <= MaxVideoId
                /\ seq' = [seq EXCEPT !.video = @ + 1]
                /\ videos' = (seq.video :>
                       [topic_id |-> topicId, module_id |-> moduleId,
                        duration_seconds |-> durationSeconds,
                        order_index |-> IF orderIndex # 0 THEN orderIndex
                                        ELSE NextVideoOrder(moduleId)]) @@ videos
                /\ req' = [req EXCEPT ![s] =
                             VideoRequest(route, topicId, moduleId, seq.video, 201)]
    /\ UNCHANGED <<topics, modules>>

\* PUT /topics/:topicId/modules/:moduleId/videos/:videoId; keys: the body's keys
VideoUpdate(s, topicId, moduleId, videoId, keys, validType, durationSeconds, orderIndex) ==
    /\ req[s].pc = "idle"
    /\ UNCHANGED <<catalog, created>>
    /\ LET route == "PUT /topics/:topicId/modules/:moduleId/videos/:videoId"
       IN  IF ~(videoId \in DOMAIN videos /\ videos[videoId].module_id = moduleId)
           THEN /\ req' = [req EXCEPT ![s] =
                             VideoRequest(route, topicId, moduleId, videoId, 404)]
                /\ UNCHANGED videos
           ELSE IF ("videoType" \in keys /\ ~validType)
                    \/ keys \cap {"durationSeconds", "orderIndex", "videoType"} = {}
           THEN /\ req' = [req EXCEPT ![s] =
                             VideoRequest(route, topicId, moduleId, videoId, 400)]
                /\ UNCHANGED videos
           ELSE /\ videos' = [videos EXCEPT ![videoId] =
                      [@ EXCEPT !.duration_seconds = IF "durationSeconds" \in keys
                                                     THEN durationSeconds ELSE @,
                                !.order_index = IF "orderIndex" \in keys
                                                THEN orderIndex ELSE @]]
                /\ req' = [req EXCEPT ![s] =
                             VideoRequest(route, topicId, moduleId, videoId, 200)]
    /\ UNCHANGED <<topics, modules, seq>>

\* DELETE /topics/:topicId/modules/:moduleId/videos/:videoId
VideoDelete(s, topicId, moduleId, videoId) ==
    /\ req[s].pc = "idle"
    /\ UNCHANGED <<catalog, created>>
    /\ LET route == "DELETE /topics/:topicId/modules/:moduleId/videos/:videoId"
       IN  IF ~(videoId \in DOMAIN videos /\ videos[videoId].module_id = moduleId)
           THEN /\ req' = [req EXCEPT ![s] =
                             VideoRequest(route, topicId, moduleId, videoId, 404)]
                /\ UNCHANGED videos
           ELSE /\ videos' = Restrict(videos, DOMAIN videos \ {videoId})
                /\ req' = [req EXCEPT ![s] =
                             VideoRequest(route, topicId, moduleId, videoId, 200)]
    /\ UNCHANGED <<topics, modules, seq>>

\* POST /topics/:topicId/modules/:moduleId/videos/upload; duration in minutes
VideoUpload(s, topicId, moduleId, hasFile, titled, duration, order) ==
    /\ req[s].pc = "idle"
    /\ UNCHANGED <<catalog, created>>
    /\ LET route == "POST /topics/:topicId/modules/:moduleId/videos/upload"
       IN  IF ~hasFile \/ ~titled
           THEN /\ req' = [req EXCEPT ![s] = VideoRequest(route, topicId, moduleId, 0, 400)]
                /\ UNCHANGED <<topics, modules, videos, seq>>
           ELSE IF topicId \notin DOMAIN topics
                    \/ ~(moduleId \in DOMAIN modules /\ modules[moduleId].topic_id = topicId)
           THEN /\ req' = [req EXCEPT ![s] = VideoRequest(route, topicId, moduleId, 0, 404)]
                /\ UNCHANGED <<topics, modules, videos, seq>>
           ELSE LET vtbl == (seq.video :>
                                [topic_id |-> topicId, module_id |-> moduleId,
                                 duration_seconds |-> duration * 60,
                                 order_index |-> IF order # 0 THEN order ELSE 1]) @@ videos
                    mtbl == [modules EXCEPT ![moduleId].duration_minutes =
                                                 ModuleDurationMinutes(vtbl, moduleId)]
                IN  /\ seq.video <= MaxVideoId
                    /\ seq' = [seq EXCEPT !.video = @ + 1]
                    /\ videos' = vtbl
                    /\ modules' = mtbl
                    /\ topics' = [topics EXCEPT ![topicId].duration_minutes =
                                                    TopicDurationMinutes(mtbl, topicId)]
                    /\ req' = [req EXCEPT ![s] =
                                 VideoRequest(route, topicId, moduleId, seq.video, 200)]

\* values of durationSeconds and orderIndex in the bodies of the video routes
DurationSecondsVals == {0, 90}

OrderIndexVals == {0, 2}

(***************************************************************************)
(* SpecVideo: the video routes, one request after the other.               *)
(***************************************************************************)
NextVideo ==
    \/ \E t \in 1..2, m \in 1..MaxModuleId, titled \in BOOLEAN, vt \in BOOLEAN,
          d \in DurationSecondsVals, o \in OrderIndexVals :
            VideoCreate(1, t, m, titled, vt, d, o)
    \/ \E t \in 1..2, m \in 1..MaxModuleId, v \in 1..MaxVideoId,
          k \in SUBSET {"durationSeconds", "orderIndex", "videoType"}, vt \in BOOLEAN,
          d \in DurationSecondsVals, o \in OrderIndexVals \ {0} :
            VideoUpdate(1, t, m, v, k, vt, d, o)
    \/ \E t \in 1..2, m \in 1..MaxModuleId, v \in 1..MaxVideoId : VideoDelete(1, t, m, v)
    \/ \E t \in 1..3, m \in 1..MaxModuleId, f \in BOOLEAN, titled \in BOOLEAN,
          d \in DurationVals, o \in OrderIndexVals :
            VideoUpload(1, t, m, f, titled, d, o)
    \/ Finish(1)

SpecVideo == Init /\ [][NextVideo]_vars

VideoRoutes ==
    {"POST /topics/:topicId/modules/:moduleId/videos",
     "PUT /topics/:topicId/modules/:moduleId/videos/:videoId",
     "DELETE /topics/:topicId/modules/:moduleId/videos/:videoId",
     "POST /topics/:topicId/modules/:moduleId/videos/upload"}

\* C6: after a video insert, update or delete the parent module's duration_minutes
\* is the sum of its videos' duration_seconds divided by 60, and the topic's
\* duration_minutes the sum of its modules' duration_minutes.
C6_DurationsFollowVideoWrites ==
    \A s \in Slots :
        (/\ req[s].pc = "done"
         /\ req[s].route \in VideoRoutes
         /\ req[s].status \in {200, 201})
        => /\ req[s].moduleId \in DOMAIN modules
           /\ modules[req[s].moduleId].duration_minutes =
                  ModuleDurationMinutes(videos, req[s].moduleId)
           /\ req[s].topicId \in DOMAIN topics
           /\ topics[req[s].topicId].duration_minutes =
                  TopicDurationMinutes(modules, req[s].topicId)

(***************************************************************************)
(* POST /api/topics and DELETE /api/topics/:id                             *)
(***************************************************************************)
MaxTopicId == 4

\* String.prototype.trim on a title
RECURSIVE Trim(_)
Trim(title) ==
    IF title # <<>> /\ Head(title) = " " THEN Trim(Tail(title))
    ELSE IF title # <<>> /\ title[Len(title)] = " "
    THEN Trim(SubSeq(title, 1, Len(title) - 1))
    ELSE title

TopicRequest(route, id, status) == [route |-> route, pc |-> "done", id |-> id, status |-> status]

\* a transaction of the creation: the rows it has written to the three tables
EmptyCreateTx == [tops |-> EmptyOv, mods |-> EmptyOv, vids |-> EmptyOv]

\* validation of the title, then generateSlug(title); status = 'draft' when the
\* body has none (""); the body has nModules modules of nVideos videos each
TopicCreateReceive(s, title, nModules, nVideos, status) ==
    /\ req[s].pc = "idle"
    /\ IF title = <<>> \/ Trim(title) = <<>>
       THEN req' = [req EXCEPT ![s] = TopicRequest("POST /topics", 0, 400)]
       ELSE req' = [req EXCEPT ![s] =
                      [route |-> "POST /topics", pc |-> "newSlug", id |-> 0, status |-> 0,
                       title |-> title, nModules |-> nModules, nVideos |-> nVideos,
                       topicStatus |-> IF status = "" THEN "draft" ELSE status,
                       baseSlug |-> generateSlug(title), slug |-> generateSlug(title),
                       counter |-> 1,
                       tx |-> EmptyCreateTx, moduleIndex |-> 0, videoIndex |-> 0,
                       moduleId |-> 0,
                       \* for the properties: the slugs the loop found in use
                       seen |-> {}]]
    /\ UNCHANGED <<topics, modules, videos, catalog, seq, created>>

\* one turn of the slug loop: SELECT id FROM topics WHERE slug = $1
TopicCreateSlugCheck(s) ==
    /\ req[s].pc = "newSlug"
    /\ LET r == req[s]
       IN  IF SlugInUse(topics, r.slug, {})
           THEN req' = [req EXCEPT ![s] =
                          [r EXCEPT !.slug = Suffixed(r.baseSlug, r.counter),
                                    !.counter = @ + 1, !.seen = @ \cup {r.slug}]]
           ELSE req' = [req EXCEPT ![s] = [r EXCEPT !.pc = "insert"]]
    /\ UNCHANGED <<topics, modules, videos, catalog, seq, created>>

\* the answer of a creation: what its transaction wrote stays on record
TopicCreateDone(r, id, status) ==
    TopicRequest("POST /topics", id, status)
       @@ [wrote |-> r.tx, title |-> r.title, client |-> r.client]

\* connect; BEGIN; INSERT INTO topics. The INSERT waits while another transaction holds
\* the same slug uncommitted, and throws when a committed row has it.
TopicCreateInsert(s) ==
    /\ req[s].pc = "insert"
    /\ seq.topic <= MaxTopicId
    /\ LET r == req[s]
       IN  /\ ~SlugHeld(s, r.slug)
           /\ seq' = [seq EXCEPT !.topic = @ + 1]
           /\ IF SlugConflict(topics, seq.topic, r.slug) \/ r.topicStatus \notin TopicStatuses
              THEN \* the INSERT throws: ROLLBACK, 500; nextval is not rolled back
                   Catch(s, TopicCreateDone(Connect(r), 0, 500))
              ELSE req' = [req EXCEPT ![s] =
                             [Connect(r) EXCEPT !.pc = "createModules", !.id = seq.topic,
                                       !.tx.tops = OvPut(@, seq.topic,
                                          [title |-> Trim(r.title), slug |-> r.slug,
                                           description |-> "d0", duration_minutes |-> 0,
                                           status |-> r.topicStatus, published_at |-> 0])]]
    /\ UNCHANGED <<topics, modules, videos, catalog, created>>

\* INSERT INTO topic_modules, with order_index i + 1
TopicCreateModule(s) ==
    /\ req[s].pc = "createModules"
    /\ req[s].moduleIndex < req[s].nModules
    /\ seq.module <= MaxModuleId
    /\ LET r == req[s]
           tx1 == TxInsertModule(r.tx, seq.module, r.id, r.moduleIndex + 1)
       IN  /\ seq' = [seq EXCEPT !.module = @ + 1]
           /\ req' = [req EXCEPT ![s] =
                        IF r.nVideos > 0
                        THEN [r EXCEPT !.tx = tx1, !.pc = "createVideos",
                                       !.moduleId = seq.module, !.videoIndex = 0]
                        ELSE [r EXCEPT !.tx = tx1, !.moduleIndex = @ + 1]]
    /\ UNCHANGED <<topics, modules, videos, catalog, created>>

\* INSERT INTO topic_videos, with order_index j + 1
TopicCreateVideo(s) ==
    /\ req[s].pc = "createVideos"
    /\ seq.video <= MaxVideoId
    /\ LET r == req[s]
           tx1 == TxInsertVideo(r.tx, seq.video, r.id, r.moduleId, 60, r.videoIndex + 1)
       IN  /\ seq' = [seq EXCEPT !.video = @ + 1]
           /\ req' = [req EXCEPT ![s] =
                        IF r.videoIndex + 1 = r.nVideos
                        THEN [r EXCEPT !.tx = tx1, !.pc = "createModules",
                                       !.moduleIndex = @ + 1]
                        ELSE [r EXCEPT !.tx = tx1, !.videoIndex = @ + 1]]
    /\ UNCHANGED <<topics, modules, videos, catalog, created>>

\* COMMIT, after the last module
TopicCreateCommit(s) ==
    /\ req[s].pc = "createModules"
    /\ req[s].moduleIndex = req[s].nModules
    /\ LET r == req[s]
       IN  /\ topics' = Commit(topics, r.tx.tops)
           /\ modules' = Commit(modules, r.tx.mods)
           /\ videos' = Commit(videos, r.tx.vids)
           /\ created' = Append(created,
                            [id |-> r.id, title |-> r.title, slug |-> r.slug,
                             seen |-> r.seen])
           /\ req' = [req EXCEPT ![s] = Release(TopicCreateDone(r, r.id, 201))]
    /\ UNCHANGED <<catalog, seq>>

\* a statement after the INSERT INTO topics throws; catch: ROLLBACK, rethrow, 500
TopicCreateError(s) ==
    /\ req[s].pc \in {"createModules", "createVideos"}
    /\ LET r == req[s]
       IN  /\ topics' = Rollback(topics, r.tx.tops)
           /\ modules' = Rollback(modules, r.tx.mods)
           /\ videos' = Rollback(videos, r.tx.vids)
           /\ Catch(s, TopicCreateDone(r, 0, 500))
    /\ UNCHANGED <<catalog, seq, created>>

\* DELETE /topics/:id; ON DELETE CASCADE removes the modules and videos
TopicDelete(s, id) ==
    /\ req[s].pc = "idle"
    /\ IF id \notin DOMAIN topics
       THEN /\ req' = [req EXCEPT ![s] = TopicRequest("DELETE /topics/:id", id, 404)]
            /\ UNCHANGED <<topics, modules, videos>>
       ELSE /\ topics' = Restrict(topics, DOMAIN topics \ {id})
            /\ modules' = Restrict(modules, DOMAIN modules \ TopicModules(modules, id))
            /\ videos' = Restrict(videos,
                             {v \in DOMAIN videos :
                                 /\ videos[v].topic_id # id
                                 /\ videos[v].module_id \notin TopicModules(modules, id)})
            /\ req' = [req EXCEPT ![s] = TopicRequest("DELETE /topics/:id", id, 200)]
    /\ UNCHANGED <<catalog, seq, created>>

\* titles of the requests: "c" and "C!" have the base slug c, " " is blank
Titles == {<<"c">>, <<"C", "!">>, <<" ">>}

\* bodies of PUT /topics/:id that carry a title, a slug, both, or neither
SlugBodies ==
    {PutBody(k, t, <<"c">>, "d0", 0) :
        k \in {{"description"}, {"title"}, {"slug"}, {"title", "slug"}},
        t \in {<<"c">>, <<"b">>}}

(***************************************************************************)
(* SpecSlug: topic creations on two connections, one after the other or   *)
(* overlapping, and among them one update or one delete of a topic on the *)
(* first connection.                                                       *)
(***************************************************************************)
NextSlug ==
    \/ \E s \in Slots, t \in Titles, n \in 0..1 : TopicCreateReceive(s, t, n, 0, "")
    \/ \E s \in Slots : TopicCreateSlugCheck(s)
    \/ \E s \in Slots : TopicCreateInsert(s)
    \/ \E s \in Slots : TopicCreateModule(s)
    \/ \E s \in Slots : TopicCreateCommit(s)
    \/ \E id \in 1..MaxTopicId : TopicDelete(1, id)
    \/ \E id \in 1..MaxTopicId, b \in SlugBodies : PutReceive(1, id, b)
    \/ PutSlugCheck(1)
    \/ PutUpdate(1)
    \/ \E s \in Slots : Finish(s) /\ req[s].route = "POST /topics"

SpecSlug == Init /\ [][NextSlug]_vars

\* no two rows of the topics table have the same slug
SlugsUnique == \A t, u \in DOMAIN topics : t # u => topics[t].slug # topics[u].slug

\* C7: the slug generated at creation is unique across the topics table, and the
\* first two topics created with an identical title get the slugs t and t-1, where
\* t is the base slug of the title.
C7_IdenticalTitlesYieldBaseAndFirstSuffix ==
    /\ SlugsUnique
    /\ \A i, j \in DOMAIN created :
          (/\ i < j
           /\ created[i].title = created[j].title
           /\ created[i].id \in DOMAIN topics /\ created[j].id \in DOMAIN topics
           /\ \A k \in 1..(j - 1) : created[k].title = created[i].title => k = i)
          => /\ created[i].slug = generateSlug(created[i].title)
             /\ created[j].slug = Suffixed(generateSlug(created[i].title), 1)

\* C7 (amended): slugs are unique across the topics table, and a topic created with
\* title T gets the first of t, t-1, t-2, ... that the creation's checks did not
\* find in use by another topic; t and t-1 follow for two identical titles only
\* when no other topic holds them.
C7_CreatedSlugIsFirstUnused ==
    /\ SlugsUnique
    /\ \A i \in DOMAIN created :
          LET t == generateSlug(created[i].title)
          IN  /\ created[i].slug = SlugLoop(t, t, 1, created[i].seen)
              /\ created[i].slug \notin created[i].seen
              /\ created[i].seen = {} => created[i].slug = t
              /\ created[i].seen = {t} => created[i].slug = Suffixed(t, 1)

\* two topics created with the same title hold the slugs c and c-1
C7_Witness ==
    \E i, j \in DOMAIN created :
        /\ i < j
        /\ created[i].title = created[j].title
        /\ created[i].id \in DOMAIN topics /\ created[j].id \in DOMAIN topics
        /\ topics[created[i].id].slug = <<"c">>
        /\ topics[created[j].id].slug = <<"c", "-", "1">>

\* C8: a topic's slug changes only when an update changes the topic's title; it is
\* then regenerated from the new title and stays unique; no other request alters it.
C8_SlugChangesOnlyWithTitle ==
    [][\A t \in DOMAIN topics \cap DOMAIN topics' :
          topics'[t].slug # topics[t].slug
          => /\ topics'[t].title # topics[t].title
             /\ topics'[t].slug \in
                   {generateSlug(topics'[t].title)} \cup
                   {Suffixed(generateSlug(topics'[t].title), k) : k \in 1..MaxTopicId}
             /\ \A u \in DOMAIN topics' \ {t} : topics'[u].slug # topics'[t].slug]_vars

\* C8 (amended): a topic's slug changes only by a PUT /topics/:id that changes the
\* title, which regenerates it from the new title, or that does not regenerate it
\* and whose body carries a slug field, which sets it to that value; it stays
\* unique, and no other request alters it.
C8_SlugChangesOnlyByTitleOrSlugField ==
    [][\A t \in DOMAIN topics \cap DOMAIN topics' :
          topics'[t].slug # topics[t].slug
          => /\ \E s \in Slots :
                   /\ req[s].pc = "update"
                   /\ req[s].id = t
                   /\ \/ /\ req[s].retitled
                         /\ topics'[t].title = req[s].body.title
                         /\ topics'[t].title # topics[t].title
                         /\ topics'[t].slug \in
                               {req[s].baseSlug} \cup
                               {Suffixed(req[s].baseSlug, k) : k \in 1..MaxTopicId}
                      \/ /\ ~req[s].retitled
                         /\ "slug" \in req[s].body.keys
                         /\ topics'[t].slug = req[s].body.slug
             /\ \A u \in DOMAIN topics' \ {t} : topics'[u].slug # topics'[t].slug]_vars

\* a PUT changed a title and the topic got the regenerated slug with the suffix -1
C8_Witness ==
    /\ PutDone(1)
    /\ req[1].status = 200
    /\ req[1].retitled
    /\ req[1].id \in DOMAIN topics
    /\ topics[req[1].id].slug # req[1].oldSlug
    /\ topics[req[1].id].slug = Suffixed(generateSlug(req[1].body.title), 1)

(***************************************************************************)
(* Categories and subcategories: /api/categories, /api/subcategories and   *)
(* the legacy routes /categories/..., /subcategories/...                   *)
(***************************************************************************)
MaxCategoryId == 3
MaxSubcategoryId == 3

CatRequest(route, id, status) == [route |-> route, pc |-> "done", id |-> id, status |-> status]

Subcategories(tbl, c) == {x \in DOMAIN tbl : tbl[x].category_id = c}

\* a count check that finds no subcategory
SubcategoryCountZero(tbl, c) == 0

\* SELECT COUNT(*) as count FROM subcategory WHERE category_id = $1
SubcategoryCount(tbl, c) == Cardinality(Subcategories(tbl, c))

\* a subcategory table without the foreign key
NeverReferenced(tbl, c) == FALSE

\* category_id INTEGER REFERENCES category(id): a DELETE of category c fails
\* while a subcategory row refers to it
Referenced(tbl, c) == Subcategories(tbl, c) # {}

\* trigger update_topics_count: AFTER INSERT OR DELETE ON subcategory
UpdateTopicsCount(tbl, c, delta) ==
    IF c \in DOMAIN tbl THEN [tbl EXCEPT ![c].topics_count = @ + delta] ELSE tbl

\* const validStatuses = ['Active', 'Inactive', 'Draft']
ValidStatuses == {"Active", "Inactive", "Draft"}

\* a handler that stores the status of the body as it is
CategoryStatusAsGiven(status) == status

\* status && validStatuses.includes(status) ? status : 'Active'; "" is an omitted status
CategoryStatus(status) == IF status # "" /\ status \in ValidStatuses THEN status ELSE "Active"

\* the formatted response data of a category row: topics_count || 0, status
CategoryResponse(route, id, status, row) ==
    [route |-> route, pc |-> "done", id |-> id, status |-> status,
     data |-> [topicsCount |-> IF row.topics_count # 0 THEN row.topics_count ELSE 0,
               status |-> row.status]]

\* POST /api/categories; topics_count INTEGER DEFAULT 0. The answer keeps the
\* body it was given, so that a property can relate the two.
CategoryCreate(s, named, described, status) ==
    /\ req[s].pc = "idle"
    /\ LET body == [named |-> named, described |-> described, status |-> status]
       IN  IF ~named \/ ~described
           THEN /\ req' = [req EXCEPT ![s] =
                             CatRequest("POST /categories", 0, 400) @@ [body |-> body]]
                /\ UNCHANGED <<category, seq>>
           ELSE LET row == [name |-> "n", status |-> CategoryStatus(status),
                            topics_count |-> 0]
                IN  /\ seq.category <= MaxCategoryId
                    /\ seq' = [seq EXCEPT !.category = @ + 1]
                    /\ category' = (seq.category :> row) @@ category
                    /\ req' = [req EXCEPT ![s] =
                                 CategoryResponse("POST /categories", seq.category, 201, row)
                                 @@ [body |-> body]]
    /\ UNCHANGED <<topics, modules, videos, site, subcategory, created>>

\* PUT /api/categories/:id: validation, SELECT id FROM category WHERE id = $1
CategoryUpdateReceive(s, id, named, described, status) ==
    /\ req[s].pc = "idle"
    /\ IF id = 0 \/ ~named \/ ~described
       THEN req' = [req EXCEPT ![s] = CatRequest("PUT /categories/:id", id, 400)]
       ELSE IF id \notin DOMAIN category
       THEN req' = [req EXCEPT ![s] = CatRequest("PUT /categories/:id", id, 404)]
       ELSE req' = [req EXCEPT ![s] =
                      [route |-> "PUT /categories/:id", pc |-> "updateCategory", id |-> id,
                       status |-> 0, categoryStatus |-> CategoryStatus(status),
                       body |-> [status |-> status]]]
    /\ UNCHANGED <<topics, modules, videos, catalog, seq, created>>

\* UPDATE category SET name = $1, description = $2, status = $3 WHERE id = $4
CategoryUpdateExec(s) ==
    /\ req[s].pc = "updateCategory"
    /\ LET r == req[s]
       IN  IF r.id \notin DOMAIN category
           THEN \* no row comes back: reading result.rows[0].id throws, 500
                /\ req' = [req EXCEPT ![s] = CatRequest("PUT /categories/:id", r.id, 500)]
                /\ UNCHANGED category
           ELSE LET row == [category[r.id] EXCEPT !.status = r.categoryStatus]
                IN  /\ category' = [category EXCEPT ![r.id] = row]
                    /\ req' = [req EXCEPT ![s] =
                                 CategoryResponse("PUT /categories/:id", r.id, 200, row)]
    /\ UNCHANGED <<topics, modules, videos, site, subcategory, seq, created>>

\* DELETE /api/categories/:id: parseInt of the id, SELECT id, name FROM category
CategoryDeleteReceive(s, id) ==
    /\ req[s].pc = "idle"
    /\ IF id = 0
       THEN req' = [req EXCEPT ![s] = CatRequest("DELETE /categories/:id", id, 400)]
       ELSE IF id \notin DOMAIN category
       THEN req' = [req EXCEPT ![s] = CatRequest("DELETE /categories/:id", id, 404)]
       ELSE req' = [req EXCEPT ![s] =
                      [route |-> "DELETE /categories/:id", pc |-> "count", id |-> id,
                       status |-> 0, subcategoryCount |-> 0]]
    /\ UNCHANGED <<topics, modules, videos, catalog, seq, created>>

\* SELECT COUNT(*) FROM subcategory WHERE category_id = $1; 400 when above 0
CategoryDeleteCount(s) ==
    /\ req[s].pc = "count"
    /\ LET r == req[s]
           subcategoryCount == SubcategoryCount(subcategory, r.id)
       IN  req' = [req EXCEPT ![s] =
                     [r EXCEPT !.subcategoryCount = subcategoryCount,
                               !.pc = IF subcategoryCount > 0 THEN "done" ELSE "delete",
                               !.status = IF subcategoryCount > 0 THEN 400 ELSE 0]]
    /\ UNCHANGED <<topics, modules, videos, catalog, seq, created>>

\* DELETE FROM category WHERE id = $1
CategoryDeleteExec(s) ==
    /\ req[s].pc = "delete"
    /\ LET r == req[s]
       IN  IF Referenced(subcategory, r.id)
           THEN \* violates the foreign key of subcategory: the catch answers 500
                /\ req' = [req EXCEPT ![s] = [r EXCEPT !.pc = "done", !.status = 500]]
                /\ UNCHANGED category
           ELSE /\ category' = Restrict(category, DOMAIN category \ {r.id})
                /\ req' = [req EXCEPT ![s] = [r EXCEPT !.pc = "done", !.status = 200]]
    /\ UNCHANGED <<topics, modules, videos, site, subcategory, seq, created>>

\* GET /categories/delete/:id (controller.deleteCategory)
deleteCategory(s, id) ==
    /\ req[s].pc = "idle"
    /\ IF Referenced(subcategory, id)
       THEN /\ req' = [req EXCEPT ![s] = CatRequest("GET /categories/delete/:id", id, 500)]
            /\ UNCHANGED category
       ELSE /\ category' = Restrict(category, DOMAIN category \ {id})
            /\ req' = [req EXCEPT ![s] = CatRequest("GET /categories/delete/:id", id, 200)]
    /\ UNCHANGED <<topics, modules, videos, site, subcategory, seq, created>>

\* POST /api/subcategories: validation, SELECT id, name FROM category WHERE id = $1
SubcategoryCreateReceive(s, named, categoryId) ==
    /\ req[s].pc = "idle"
    /\ IF ~named \/ categoryId = 0
       THEN req' = [req EXCEPT ![s] = CatRequest("POST /subcategories", 0, 400)]
       ELSE IF categoryId \notin DOMAIN category
       THEN req' = [req EXCEPT ![s] = CatRequest("POST /subcategories", 0, 400)]
       ELSE req' = [req EXCEPT ![s] =
                      [route |-> "POST /subcategories", pc |-> "insertSubcategory",
                       id |-> 0, status |-> 0, categoryId |-> categoryId]]
    /\ UNCHANGED <<topics, modules, videos, catalog, seq, created>>

\* INSERT INTO subcategory (name, category_id, ...)
SubcategoryCreateInsert(s) ==
    /\ req[s].pc = "insertSubcategory"
    /\ seq.subcategory <= MaxSubcategoryId
    /\ seq' = [seq EXCEPT !.subcategory = @ + 1]
    /\ LET r == req[s]
       IN  IF r.categoryId \notin DOMAIN category
           THEN \* violates the foreign key: the catch answers 500
                /\ req' = [req EXCEPT ![s] = CatRequest("POST /subcategories", 0, 500)]
                /\ UNCHANGED <<category, subcategory>>
           ELSE /\ subcategory' = (seq.subcategory :>
                                     [name |-> "s", category_id |-> r.categoryId])
                                  @@ subcategory
                /\ category' = UpdateTopicsCount(category, r.categoryId, 1)
                /\ req' = [req EXCEPT ![s] =
                             CatRequest("POST /subcategories", seq.subcategory, 201)]
    /\ UNCHANGED <<topics, modules, videos, site, created>>

\* POST /subcategories/add (controller.saveSubcategory)
saveSubcategory(s, named, categoryId) ==
    /\ req[s].pc = "idle"
    /\ IF ~named \/ categoryId = 0
       THEN /\ req' = [req EXCEPT ![s] = CatRequest("POST /subcategories/add", 0, 400)]
            /\ UNCHANGED <<category, subcategory, seq>>
       ELSE /\ seq.subcategory <= MaxSubcategoryId
            /\ seq' = [seq EXCEPT !.subcategory = @ + 1]
            /\ IF categoryId \notin DOMAIN category
               THEN /\ req' = [req EXCEPT ![s] =
                                 CatRequest("POST /subcategories/add", 0, 500)]
                    /\ UNCHANGED <<category, subcategory>>
               ELSE /\ subcategory' = (seq.subcategory :>
                                         [name |-> "s", category_id |-> categoryId])
                                      @@ subcategory
                    /\ category' = UpdateTopicsCount(category, categoryId, 1)
                    /\ req' = [req EXCEPT ![s] =
                                 CatRequest("POST /subcategories/add", seq.subcategory, 201)]
    /\ UNCHANGED <<topics, modules, videos, site, created>>

\* GET /subcategories/delete/:id (controller.deleteSubcategory)
deleteSubcategory(s, id) ==
    /\ req[s].pc = "idle"
    /\ IF id \in DOMAIN subcategory
       THEN /\ subcategory' = Restrict(subcategory, DOMAIN subcategory \ {id})
            /\ category' = UpdateTopicsCount(category, subcategory[id].category_id, -1)
       ELSE UNCHANGED <<category, subcategory>>
    /\ req' = [req EXCEPT ![s] = CatRequest("GET /subcategories/delete/:id", id, 200)]
    /\ UNCHANGED <<topics, modules, videos, site, seq, created>>

(***************************************************************************)
(* SpecCat: the category requests on the first connection, overlapping     *)
(* with the subcategory creations on the second.                           *)
(***************************************************************************)
NextCat ==
    \/ \E named \in BOOLEAN, described \in BOOLEAN : CategoryCreate(1, named, described, "")
    \/ \E id \in 0..MaxCategoryId : CategoryDeleteReceive(1, id)
    \/ CategoryDeleteCount(1)
    \/ CategoryDeleteExec(1)
    \/ \E id \in 1..MaxCategoryId : deleteCategory(1, id)
    \/ \E id \in 1..MaxSubcategoryId : deleteSubcategory(1, id)
    \/ \E named \in BOOLEAN, c \in 0..MaxCategoryId : SubcategoryCreateReceive(2, named, c)
    \/ SubcategoryCreateInsert(2)
    \/ \E named \in BOOLEAN, c \in 0..MaxCategoryId : saveSubcategory(2, named, c)
    \/ \E s \in Slots : Finish(s)

SpecCat == Init /\ [][NextCat]_vars

\* C9: DELETE /api/categories/:id for a category with at least one subcategory row
\* returns 400 and deletes nothing: the category and subcategory tables keep their
\* rows.
C9_DeleteWithSubcategoriesRejected ==
    [][\A s \in Slots :
          (/\ req[s].pc = "count"
           /\ req'[s] # req[s]
           /\ Subcategories(subcategory, req[s].id) # {})
          => /\ req'[s].pc = "done"
             /\ req'[s].status = 400
             /\ DOMAIN category' = DOMAIN category
             /\ DOMAIN subcategory' = DOMAIN subcategory]_vars

\* a DELETE /api/categories/:id answered 400 for a category that has subcategories
C9_Witness ==
    \E s \in Slots :
        /\ req[s].pc = "done"
        /\ req[s].route = "DELETE /categories/:id"
        /\ req[s].status = 400
        /\ req[s].id \in DOMAIN category
        /\ req[s].subcategoryCount > 0
        /\ Subcategories(subcategory, req[s].id) # {}

\* C10: every subcategory's category_id refers to an existing category in every
\* reachable state, and no step deletes a category that has subcategories, whatever
\* the route and however a category delete and a subcategory creation interleave.
C10_SubcategoriesReferToCategories ==
    /\ [](\A x \in DOMAIN subcategory : subcategory[x].category_id \in DOMAIN category)
    /\ [][\A c \in DOMAIN category \ DOMAIN category' :
             Subcategories(subcategory, c) = {}]_vars

\* a category delete that passed its count check was refused after a subcategory
\* of that category was created meanwhile
C10_Witness ==
    \E s \in Slots :
        /\ req[s].pc = "done"
        /\ req[s].route = "DELETE /categories/:id"
        /\ req[s].status = 500
        /\ req[s].subcategoryCount = 0
        /\ req[s].id \in DOMAIN category
        /\ Subcategories(subcategory, req[s].id) # {}

(***************************************************************************)
(* SpecCatalog: the category creations and updates of one connection,      *)
(* with every kind of status a body can carry.                             *)
(***************************************************************************)
\* the status of a body: omitted, each valid one, and one outside validStatuses
BodyStatuses == {"", "Active", "Inactive", "Draft", "Archived"}

NextCatalog ==
    \/ \E named \in BOOLEAN, described \in BOOLEAN, status \in BodyStatuses :
          CategoryCreate(1, named, described, status)
    \/ \E id \in 0..MaxCategoryId, named \in BOOLEAN, described \in BOOLEAN,
          status \in BodyStatuses :
          CategoryUpdateReceive(1, id, named, described, status)
    \/ CategoryUpdateExec(1)
    \/ Finish(1)

SpecCatalog == Init /\ [][NextCatalog]_vars

MaxTime == 3

\* CURRENT_TIMESTAMP of a statement: later than every time the table holds
CurrentTimestamp(tbl) ==
    LET times == {tbl[t].published_at : t \in DOMAIN tbl} \cup {0}
    IN  1 + CHOOSE m \in times : \A x \in times : x <= m

\* a publish route that takes every topic for an unpublished one
AlwaysUnpublished(row) == TRUE

\* WHERE id = $1 AND status != 'published'
Unpublished(row) == row.status # "published"

\* POST /api/topics/:id/publish
TopicPublish(s, id) ==
    /\ req[s].pc = "idle"
    /\ IF id \in DOMAIN topics /\ Unpublished(topics[id])
       THEN /\ CurrentTimestamp(topics) <= MaxTime
            /\ topics' = [topics EXCEPT ![id].status = "published",
                                        ![id].published_at = CurrentTimestamp(topics)]
            /\ req' = [req EXCEPT ![s] = TopicRequest("POST /topics/:id/publish", id, 200)]
       ELSE /\ req' = [req EXCEPT ![s] = TopicRequest("POST /topics/:id/publish", id, 404)]
            /\ UNCHANGED topics
    /\ UNCHANGED <<modules, videos, catalog, seq, created>>

\* POST /api/topics/:id/archive
TopicArchive(s, id) ==
    /\ req[s].pc = "idle"
    /\ IF id \in DOMAIN topics /\ topics[id].status # "archived"
       THEN /\ topics' = [topics EXCEPT ![id].status = "archived"]
            /\ req' = [req EXCEPT ![s] = TopicRequest("POST /topics/:id/archive", id, 200)]
       ELSE /\ req' = [req EXCEPT ![s] = TopicRequest("POST /topics/:id/archive", id, 404)]
            /\ UNCHANGED topics
    /\ UNCHANGED <<modules, videos, catalog, seq, created>>

\* switch (currentStatus): draft -> published -> archived -> draft
ToggledStatus(currentStatus) ==
    IF currentStatus = "draft" THEN "published"
    ELSE IF currentStatus = "published" THEN "archived"
    ELSE "draft"

\* POST /api/topics/:id/toggle-status: SELECT status FROM topics WHERE id = $1
TopicToggleReceive(s, id) ==
    /\ req[s].pc = "idle"
    /\ IF id \notin DOMAIN topics
       THEN req' = [req EXCEPT ![s] = TopicRequest("POST /topics/:id/toggle-status", id, 404)]
       ELSE req' = [req EXCEPT ![s] =
                      [route |-> "POST /topics/:id/toggle-status", pc |-> "toggle",
                       id |-> id, status |-> 0, currentStatus |-> topics[id].status]]
    /\ UNCHANGED <<topics, modules, videos, catalog, seq, created>>

\* UPDATE topics SET status = $1 [, published_at = CURRENT_TIMESTAMP] WHERE id = $2
TopicToggleUpdate(s) ==
    /\ req[s].pc = "toggle"
    /\ LET r == req[s]
           newStatus == ToggledStatus(r.currentStatus)
           publishing == newStatus = "published" /\ r.currentStatus # "published"
       IN  IF r.id \notin DOMAIN topics
           THEN \* no row comes back: reading result.rows[0].id throws, 500
                /\ req' = [req EXCEPT ![s] =
                             TopicRequest("POST /topics/:id/toggle-status", r.id, 500)]
                /\ UNCHANGED topics
           ELSE /\ publishing => CurrentTimestamp(topics) <= MaxTime
                /\ topics' = [topics EXCEPT
                                ![r.id].status = newStatus,
                                ![r.id].published_at =
                                    IF publishing THEN CurrentTimestamp(topics) ELSE @]
                /\ req' = [req EXCEPT ![s] =
                             TopicRequest("POST /topics/:id/toggle-status", r.id, 200)]
    /\ UNCHANGED <<modules, videos, catalog, seq, created>>

\* title.toLowerCase().replace(/[^a-z0-9 -]/g, '').replace(/\s+/g, '-')
importSlug(title) ==
    LET lower == [i \in 1..Len(title) |-> Lower(title[i])]
        kept == SelectSeq(lower, LAMBDA c : c \in SlugChars)
    IN  ReplaceRuns(kept, {" "}, "-")

\* POST /api/topics/import with an array of one topic: the title check and the
\* slug of the entry; status is "" when the entry has none
TopicImportReceive(s, title, status) ==
    /\ req[s].pc = "idle"
    /\ IF title = <<>>
       THEN \* errors.push('Title is required'); the answer is still 200
            req' = [req EXCEPT ![s] = TopicRequest("POST /topics/import", 0, 200)]
       ELSE req' = [req EXCEPT ![s] =
                      [route |-> "POST /topics/import", pc |-> "importSlug", id |-> 0,
                       status |-> 0, title |-> title,
                       topicStatus |-> IF status = "" THEN "draft" ELSE status,
                       baseSlug |-> importSlug(title), slug |-> importSlug(title),
                       counter |-> 1]]
    /\ UNCHANGED <<topics, modules, videos, catalog, seq, created>>

\* one turn of the slug loop of the import
TopicImportSlugCheck(s) ==
    /\ req[s].pc = "importSlug"
    /\ LET r == req[s]
       IN  IF SlugInUse(topics, r.slug, {})
           THEN req' = [req EXCEPT ![s] =
                          [r EXCEPT !.slug = Suffixed(r.baseSlug, r.counter),
                                    !.counter = @ + 1]]
           ELSE req' = [req EXCEPT ![s] = [r EXCEPT !.pc = "importInsert"]]
    /\ UNCHANGED <<topics, modules, videos, catalog, seq, created>>

\* INSERT INTO topics (..., status, ...) VALUES (..., topic.status || 'draft', ...)
TopicImportInsert(s) ==
    /\ req[s].pc = "importInsert"
    /\ seq.topic <= MaxTopicId
    /\ seq' = [seq EXCEPT !.topic = @ + 1]
    /\ ~SlugHeld(s, req[s].slug)
    /\ LET r == req[s]
       IN  IF SlugConflict(topics, seq.topic, r.slug) \/ r.topicStatus \notin TopicStatuses
           THEN \* the INSERT throws: errors.push(err.message)
                /\ req' = [req EXCEPT ![s] = TopicRequest("POST /topics/import", 0, 200)]
                /\ UNCHANGED topics
           ELSE /\ topics' = (seq.topic :>
                       [title |-> r.title, slug |-> r.slug, description |-> "d0",
                        duration_minutes |-> 0, status |-> r.topicStatus,
                        published_at |-> 0]) @@ topics
                /\ req' = [req EXCEPT ![s] =
                             TopicRequest("POST /topics/import", seq.topic, 200)]
    /\ UNCHANGED <<modules, videos, catalog, created>>

\* the status of a body: omitted, 'published', and one the column rejects
StatusVals == {"", "published", "live"}

\* a body of PUT /topics/:id that carries the status alone
StatusBody(status) ==
    [PutBody({}, <<>>, <<>>, "", 0) EXCEPT !.keys = {"status"}] @@ [status |-> status]

(***************************************************************************)
(* SpecStatus: publish, archive and toggle-status requests on the first    *)
(* connection, one after the other, while the second creates, imports or   *)
(* updates one topic with a status in the body.                            *)
(***************************************************************************)
NextStatus ==
    \/ \E id \in 1..MaxTopicId : TopicPublish(1, id)
    \/ \E id \in 1..MaxTopicId : TopicArchive(1, id)
    \/ \E id \in 1..MaxTopicId : TopicToggleReceive(1, id)
    \/ TopicToggleUpdate(1)
    \/ Finish(1)
    \/ \E status \in StatusVals : TopicCreateReceive(2, <<"c">>, 0, 0, status)
    \/ TopicCreateSlugCheck(2)
    \/ TopicCreateInsert(2)
    \/ TopicCreateCommit(2)
    \/ \E title \in {<<>>, <<"c">>}, status \in StatusVals : TopicImportReceive(2, title, status)
    \/ TopicImportSlugCheck(2)
    \/ TopicImportInsert(2)
    \/ \E id \in 1..2, status \in StatusVals \ {""} :
          PutReceive(2, id, StatusBody(status))
    \/ PutUpdate(2)

SpecStatus == Init /\ [][NextStatus]_vars

\* C12: POST /api/topics/:id/publish on a topic that is not published sets its
\* status to 'published' and its published_at to a time, and answers 200; on a
\* topic that is published already it answers 404 and changes no topic.
C12_PublishSetsOrRefuses ==
    [][\A s \in Slots :
          (/\ req[s].pc = "idle"
           /\ req'[s].pc = "done"
           /\ req'[s].route = "POST /topics/:id/publish"
           /\ req'[s].id \in DOMAIN topics)
          => LET id == req'[s].id
             IN  IF topics[id].status # "published"
                 THEN /\ req'[s].status = 200
                      /\ topics'[id].status = "published"
                      /\ topics'[id].published_at # 0
                 ELSE /\ req'[s].status = 404
                      /\ topics' = topics]_vars

\* a publish request answered 404 for a topic that stays published as it was
C12_Witness ==
    \E s \in Slots :
        /\ req[s].pc = "done"
        /\ req[s].route = "POST /topics/:id/publish"
        /\ req[s].status = 404
        /\ req[s].id \in DOMAIN topics
        /\ topics[req[s].id].status = "published"
        /\ topics[req[s].id].published_at # 0

\* C13: once the published_at of a topic is a time, no later step changes it.
C13_PublishedAtAssignedOnce ==
    [][\A t \in DOMAIN topics \cap DOMAIN topics' :
          topics[t].published_at # 0
          => topics'[t].published_at = topics[t].published_at]_vars

\* C14: a topic whose status is 'published' has a published_at.
C14_PublishedHasPublishedAt ==
    \A t \in DOMAIN topics :
        topics[t].status = "published" => topics[t].published_at # 0

(***************************************************************************)
(* Updates and deletions of a subcategory.                                 *)
(***************************************************************************)
\* PUT /api/subcategories/:id: validation, SELECT id FROM subcategory WHERE id = $1
SubcategoryUpdateReceive(s, id, named, categoryId) ==
    /\ req[s].pc = "idle"
    /\ IF id = 0 \/ ~named \/ categoryId = 0
       THEN req' = [req EXCEPT ![s] = CatRequest("PUT /subcategories/:id", id, 400)]
       ELSE IF id \notin DOMAIN subcategory
       THEN req' = [req EXCEPT ![s] = CatRequest("PUT /subcategories/:id", id, 404)]
       ELSE req' = [req EXCEPT ![s] =
                      [route |-> "PUT /subcategories/:id", pc |-> "checkCategory",
                       id |-> id, status |-> 0, categoryId |-> categoryId]]
    /\ UNCHANGED <<topics, modules, videos, catalog, seq, created>>

\* SELECT id, name FROM category WHERE id = $1
SubcategoryUpdateCategoryCheck(s) ==
    /\ req[s].pc = "checkCategory"
    /\ IF req[s].categoryId \notin DOMAIN category
       THEN req' = [req EXCEPT ![s] = CatRequest("PUT /subcategories/:id", req[s].id, 400)]
       ELSE req' = [req EXCEPT ![s] = [req[s] EXCEPT !.pc = "updateSubcategory"]]
    /\ UNCHANGED <<topics, modules, videos, catalog, seq, created>>

\* UPDATE subcategory SET name = $1, category_id = $2, ... WHERE id = $5; the
\* trigger update_topics_count does not fire on an UPDATE
SubcategoryUpdateExec(s) ==
    /\ req[s].pc = "updateSubcategory"
    /\ LET r == req[s]
       IN  IF r.id \notin DOMAIN subcategory \/ r.categoryId \notin DOMAIN category
           THEN \* no row comes back, or the foreign key is violated: 500
                /\ req' = [req EXCEPT ![s] = CatRequest("PUT /subcategories/:id", r.id, 500)]
                /\ UNCHANGED subcategory
           ELSE /\ subcategory' = [subcategory EXCEPT ![r.id].category_id = r.categoryId]
                /\ req' = [req EXCEPT ![s] = CatRequest("PUT /subcategories/:id", r.id, 200)]
    /\ UNCHANGED <<topics, modules, videos, site, category, seq, created>>

\* POST /subcategories/update/:id (controller.updateSubcategory)
updateSubcategory(s, id, named, categoryId) ==
    /\ req[s].pc = "idle"
    /\ IF ~named \/ categoryId = 0
       THEN /\ req' = [req EXCEPT ![s] = CatRequest("POST /subcategories/update/:id", id, 400)]
            /\ UNCHANGED subcategory
       ELSE IF id \in DOMAIN subcategory /\ categoryId \notin DOMAIN category
       THEN /\ req' = [req EXCEPT ![s] = CatRequest("POST /subcategories/update/:id", id, 500)]
            /\ UNCHANGED subcategory
       ELSE /\ subcategory' = IF id \in DOMAIN subcategory
                              THEN [subcategory EXCEPT ![id].category_id = categoryId]
                              ELSE subcategory
            /\ req' = [req EXCEPT ![s] = CatRequest("POST /subcategories/update/:id", id, 200)]
    /\ UNCHANGED <<topics, modules, videos, site, category, seq, created>>

\* DELETE /api/subcategories/:id: parseInt of the id, SELECT id, name FROM subcategory
SubcategoryDeleteReceive(s, id) ==
    /\ req[s].pc = "idle"
    /\ IF id = 0
       THEN req' = [req EXCEPT ![s] = CatRequest("DELETE /subcategories/:id", id, 400)]
       ELSE IF id \notin DOMAIN subcategory
       THEN req' = [req EXCEPT ![s] = CatRequest("DELETE /subcategories/:id", id, 404)]
       ELSE req' = [req EXCEPT ![s] =
                      [route |-> "DELETE /subcategories/:id", pc |-> "deleteSubcategory",
                       id |-> id, status |-> 0]]
    /\ UNCHANGED <<topics, modules, videos, catalog, seq, created>>

\* DELETE FROM subcategory WHERE id = $1
SubcategoryDeleteExec(s) ==
    /\ req[s].pc = "deleteSubcategory"
    /\ LET id == req[s].id
       IN  /\ IF id \in DOMAIN subcategory
              THEN /\ subcategory' = Restrict(subcategory, DOMAIN subcategory \ {id})
                   /\ category' = UpdateTopicsCount(category, subcategory[id].category_id, -1)
              ELSE UNCHANGED <<category, subcategory>>
           /\ req' = [req EXCEPT ![s] = CatRequest("DELETE /subcategories/:id", id, 200)]
    /\ UNCHANGED <<topics, modules, videos, site, seq, created>>

(***************************************************************************)
(* SpecSubcat: subcategory creations, updates and deletions on the first   *)
(* connection, category deletions on the second.                           *)
(***************************************************************************)
NextSubcat ==
    \/ \E named \in BOOLEAN, c \in 0..MaxCategoryId : SubcategoryCreateReceive(1, named, c)
    \/ SubcategoryCreateInsert(1)
    \/ \E id \in 0..MaxSubcategoryId, named \in BOOLEAN, c \in 0..MaxCategoryId :
          SubcategoryUpdateReceive(1, id, named, c)
    \/ SubcategoryUpdateCategoryCheck(1)
    \/ SubcategoryUpdateExec(1)
    \/ \E id \in 1..MaxSubcategoryId, named \in BOOLEAN, c \in 0..MaxCategoryId :
          updateSubcategory(1, id, named, c)
    \/ \E id \in 0..MaxSubcategoryId : SubcategoryDeleteReceive(1, id)
    \/ SubcategoryDeleteExec(1)
    \/ \E id \in 1..MaxCategoryId : deleteCategory(2, id)
    \/ \E s \in Slots : Finish(s)

SpecSubcat == Init /\ [][NextSubcat]_vars

\* C15: the topics_count of every category equals the number of subcategory
\* rows that refer to it.
C15_TopicsCountIsSubcategoryCount ==
    \A c \in DOMAIN category :
        category[c].topics_count = Cardinality(Subcategories(subcategory, c))

(***************************************************************************)
(* Reordering of modules and of videos: one UPDATE per id of the array, in *)
(* a transaction. The request keeps the tables as they were at BEGIN.      *)
(***************************************************************************)
ReorderRequest(route, pc, id, ids) ==
    [route |-> route, pc |-> pc, id |-> id, status |-> 0, ids |-> ids, index |-> 0,
     tx |-> EmptyTx, before |-> [modules |-> modules, videos |-> videos]]

\* POST /api/topics/:topicId/modules/reorder: the array check, BEGIN
ModuleReorderReceive(s, topicId, isArray, moduleIds) ==
    /\ req[s].pc = "idle"
    /\ req' = [req EXCEPT ![s] =
                 IF ~isArray
                 THEN TopicRequest("POST /topics/:topicId/modules/reorder", topicId, 400)
                 ELSE Connect(ReorderRequest("POST /topics/:topicId/modules/reorder",
                                             "reorderModules", topicId, moduleIds))]
    /\ UNCHANGED <<topics, modules, videos, catalog, seq, created>>

\* UPDATE topic_modules SET order_index = $1 WHERE id = $2 AND topic_id = $3
ModuleReorderUpdate(s) ==
    /\ req[s].pc = "reorderModules"
    /\ req[s].index < Len(req[s].ids)
    /\ LET r == req[s]
       IN  req' = [req EXCEPT ![s] =
                     [r EXCEPT !.index = @ + 1,
                               !.tx = TxUpdateModule(@, r.ids[r.index + 1], r.id,
                                                     r.index + 1)]]
    /\ UNCHANGED <<topics, modules, videos, catalog, seq, created>>

\* POST /api/topics/:topicId/modules/:moduleId/videos/reorder: the array check, BEGIN
VideoReorderReceive(s, moduleId, isArray, videoIds) ==
    /\ req[s].pc = "idle"
    /\ req' = [req EXCEPT ![s] =
                 IF ~isArray
                 THEN TopicRequest("POST /topics/:topicId/modules/:moduleId/videos/reorder",
                                   moduleId, 400)
                 ELSE Connect(ReorderRequest(
                                 "POST /topics/:topicId/modules/:moduleId/videos/reorder",
                                 "reorderVideos", moduleId, videoIds))]
    /\ UNCHANGED <<topics, modules, videos, catalog, seq, created>>

\* UPDATE topic_videos SET order_index = $1 WHERE id = $2 AND module_id = $3
VideoReorderUpdate(s) ==
    /\ req[s].pc = "reorderVideos"
    /\ req[s].index < Len(req[s].ids)
    /\ LET r == req[s]
           vv == View(videos, r.tx.vids)
           vid == r.ids[r.index + 1]
           tx1 == IF vid \in DOMAIN vv /\ vv[vid].module_id = r.id
                  THEN [r.tx EXCEPT !.vids =
                          OvPut(@, vid, [vv[vid] EXCEPT !.order_index = r.index + 1])]
                  ELSE r.tx
       IN  req' = [req EXCEPT ![s] = [r EXCEPT !.index = @ + 1, !.tx = tx1]]
    /\ UNCHANGED <<topics, modules, videos, catalog, seq, created>>

\* COMMIT, after the last id
ReorderCommit(s) ==
    /\ req[s].pc \in {"reorderModules", "reorderVideos"}
    /\ req[s].index = Len(req[s].ids)
    /\ modules' = Commit(modules, req[s].tx.mods)
    /\ videos' = Commit(videos, req[s].tx.vids)
    /\ req' = [req EXCEPT ![s] = Release([req[s] EXCEPT !.pc = "done", !.status = 200])]
    /\ UNCHANGED <<topics, catalog, seq, created>>

\* a statement of the reordering throws; catch: ROLLBACK, rethrow, 500
ReorderError(s) ==
    /\ req[s].pc \in {"reorderModules", "reorderVideos"}
    /\ modules' = Rollback(modules, req[s].tx.mods)
    /\ videos' = Rollback(videos, req[s].tx.vids)
    /\ Catch(s, [req[s] EXCEPT !.pc = "done", !.status = 500])
    /\ UNCHANGED <<topics, catalog, seq, created>>

(***************************************************************************)
(* POST /api/homepage/content: the upsert of the homepage of a language.   *)
(* The request holds the tables as its transaction sees them (hp) and as   *)
(* they were at BEGIN (before).                                            *)
(***************************************************************************)
MaxVersion == 2

\* validation of the body, connect, BEGIN; the body has the same text for the
\* hero, about and contact sections, and nFaqs entries when it has an faqs array
HomepageReceive(s, valid, content, hasFaqs, nFaqs) ==
    /\ req[s].pc = "idle"
    /\ req' = [req EXCEPT ![s] =
                 IF ~valid
                 THEN TopicRequest("POST /homepage/content", 0, 400)
                 ELSE Connect(
                        [route |-> "POST /homepage/content", pc |-> "hp", id |-> 0,
                         status |-> 0, step |-> "homepage", content |-> content,
                         hasFaqs |-> hasFaqs, nFaqs |-> nFaqs, isUpdate |-> FALSE,
                         hp |-> homepage, before |-> homepage, committed |-> FALSE])]
    /\ UNCHANGED <<topics, modules, videos, catalog, seq, created>>

\* the statements of the transaction, one at a time
HomepageStatement(s) ==
    /\ req[s].pc = "hp"
    /\ req[s].step # "commit"
    /\ LET r == req[s]
           afterSections == IF ~r.hasFaqs THEN "commit" ELSE "deleteFaqs"
           afterFaq(n) == IF n = r.nFaqs THEN "commit" ELSE "insertFaq"
       IN  CASE r.step = "homepage" ->
                  \* SELECT id, version FROM homepage WHERE language = $1; then
                  \* UPDATE homepage SET version = version + 1, or INSERT INTO homepage
                  /\ r.hp.version < MaxVersion
                  /\ req' = [req EXCEPT ![s] =
                               [r EXCEPT !.step = "hero", !.isUpdate = r.hp.exists,
                                         !.hp.exists = TRUE,
                                         !.hp.version = IF r.hp.exists THEN @ + 1 ELSE 1]]
              [] r.step = "hero" ->
                  req' = [req EXCEPT ![s] =
                            [r EXCEPT !.step = "about", !.hp.hero = r.content]]
              [] r.step = "about" ->
                  req' = [req EXCEPT ![s] =
                            [r EXCEPT !.step = "contact", !.hp.about = r.content]]
              [] r.step = "contact" ->
                  req' = [req EXCEPT ![s] =
                            [r EXCEPT !.step = afterSections, !.hp.contact = r.content]]
              [] r.step = "deleteFaqs" ->
                  \* DELETE FROM homepage_faqs WHERE homepage_id = $1
                  req' = [req EXCEPT ![s] =
                            [r EXCEPT !.step = afterFaq(0), !.hp.faqs = <<>>]]
              [] r.step = "insertFaq" ->
                  req' = [req EXCEPT ![s] =
                            [r EXCEPT !.step = afterFaq(Len(r.hp.faqs) + 1),
                                      !.hp.faqs = Append(@, r.content)]]
    /\ UNCHANGED <<topics, modules, videos, catalog, seq, created>>

\* COMMIT
HomepageCommit(s) ==
    /\ req[s].pc = "hp"
    /\ req[s].step = "commit"
    /\ homepage' = req[s].hp
    /\ req' = [req EXCEPT ![s] = [req[s] EXCEPT !.pc = "hpFetch", !.committed = TRUE]]
    /\ UNCHANGED <<topics, modules, videos, category, subcategory, users, documents, codes,
                 seq, created>>

\* the two SELECTs on the pool that fetch the updated data; 200 or 201
HomepageFetch(s) ==
    /\ req[s].pc = "hpFetch"
    /\ req' = [req EXCEPT ![s] =
                 Release([req[s] EXCEPT !.pc = "done",
                                        !.status = IF req[s].isUpdate THEN 200 ELSE 201])]
    /\ UNCHANGED <<topics, modules, videos, catalog, seq, created>>

\* a statement throws, in the transaction or after its COMMIT; catch: ROLLBACK,
\* which undoes the open transaction and nothing once it is committed; 500
HomepageError(s) ==
    /\ req[s].pc \in {"hp", "hpFetch"}
    /\ Catch(s, [req[s] EXCEPT !.pc = "done", !.status = 500])
    /\ UNCHANGED <<topics, modules, videos, catalog, seq, created>>

(***************************************************************************)
(* SpecAtomic: the requests that run a transaction, one after the other on *)
(* one connection, each statement of which may throw.                      *)
(***************************************************************************)
\* the id arrays of the reorder requests: own ids, another topic's, unknown ones
ReorderIds == {<<>>, <<1>>, <<2, 1>>, <<3, 1>>}

NextAtomic ==
    \/ \E n \in 0..MaxBodyModules, v \in 0..MaxBodyVideos :
          TopicCreateReceive(1, <<"c">>, n, v, "")
    \/ TopicCreateSlugCheck(1)
    \/ TopicCreateInsert(1)
    \/ TopicCreateModule(1)
    \/ TopicCreateVideo(1)
    \/ TopicCreateCommit(1)
    \/ TopicCreateError(1)
    \/ \E isArray \in BOOLEAN, ids \in ReorderIds : ModuleReorderReceive(1, 1, isArray, ids)
    \/ ModuleReorderUpdate(1)
    \/ \E isArray \in BOOLEAN, ids \in ReorderIds : VideoReorderReceive(1, 1, isArray, ids)
    \/ VideoReorderUpdate(1)
    \/ ReorderCommit(1)
    \/ ReorderError(1)
    \/ \E valid \in BOOLEAN, content \in {"x", "y"}, hasFaqs \in BOOLEAN, n \in 0..1 :
          HomepageReceive(1, valid, content, hasFaqs, n)
    \/ HomepageStatement(1)
    \/ HomepageCommit(1)
    \/ HomepageFetch(1)
    \/ HomepageError(1)
    \/ Finish(1)

SpecAtomic == Init /\ [][NextAtomic]_vars

AtomicRoutes ==
    {"POST /topics", "POST /topics/:topicId/modules/reorder",
     "POST /topics/:topicId/modules/:moduleId/videos/reorder", "POST /homepage/content"}

\* none of the writes of request r is in the tables
NonePersisted(r) ==
    CASE r.route = "POST /topics" ->
            LET w == IF r.pc = "done" THEN r.wrote ELSE r.tx
            IN  /\ DOMAIN w.tops.up \cap DOMAIN topics = {}
                /\ DOMAIN w.mods.up \cap DOMAIN modules = {}
                /\ DOMAIN w.vids.up \cap DOMAIN videos = {}
      [] r.route = "POST /homepage/content" -> homepage = r.before
      [] OTHER -> modules = r.before.modules /\ videos = r.before.videos

\* every write of request r is in the tables
AllPersisted(r) ==
    CASE r.route = "POST /topics" ->
            /\ topics = View(topics, r.wrote.tops)
            /\ modules = View(modules, r.wrote.mods)
            /\ videos = View(videos, r.wrote.vids)
      [] r.route = "POST /homepage/content" -> homepage = r.hp
      [] OTHER -> /\ modules = View(r.before.modules, r.tx.mods)
                  /\ videos = View(r.before.videos, r.tx.vids)

\* request r is in its transaction, before the COMMIT
InTransaction(r) == r.pc \in {"createModules", "createVideos", "reorderModules",
                              "reorderVideos", "hp"}

\* the COMMIT of request r has succeeded
Committed(r) == r.route = "POST /homepage/content" /\ r.committed

C27_ErrorNeverFollowsCommit ==
    \A s \in Slots :
        (req[s].pc = "done" /\ req[s].route = "POST /homepage/content"
            /\ req[s].status = 500)
        => ~req[s].committed /\ homepage = req[s].before

RaceBody(s) ==
    PutBody({"description", "modules"}, <<>>, <<>>, IF s = 1 THEN "d1" ELSE "d2", 1)

\* a module entry with a placeholder id and no videos field
RaceEntries == {e \in ModuleEntries : e.id.kind = "new" /\ ~e.hasVideos}

NextRace ==
    \/ \E s \in Slots : PutReceive(s, 1, RaceBody(s))
    \/ \E s \in Slots : PutUpdate(s)
    \/ \E s \in Slots : PutBegin(s)
    \/ \E s \in Slots, e \in RaceEntries : PutModule(s, e)
    \/ \E s \in Slots : PutModulesEnd(s)

SpecRace == Init /\ [][NextRace]_vars

\* C17: once two PUT requests for the same topic have both completed, the topic
\* is as if they had run one after the other in some order: it has the
\* description of the later request b and, since b's snapshot of the existing
\* modules then holds every module of the earlier one, exactly the modules b
\* inserted.
C17_ConcurrentPutsSerialise ==
    (PutCommitted(1) /\ PutCommitted(2) /\ req[1].id = req[2].id)
    => \E b \in Slots :
          /\ topics[req[b].id].description = req[b].body.description
          /\ TopicModules(modules, req[b].id) = Range(req[b].minted)

(***************************************************************************)
(* The ORDER BY clause of the list endpoints. A query parameter is a text; *)
(* "" is an absent or empty one.                                           *)
(***************************************************************************)
\* String.prototype.toLowerCase, on the texts of the model
ToLowerCase(text) ==
    CASE text \in {"asc", "ASC", "Asc"} -> "asc"
      [] text \in {"desc", "DESC"} -> "desc"
      [] OTHER -> text

\* a list endpoint that sorts by whatever the query names
SortFieldAsGiven(allowed, sortBy, default) == sortBy

\* allowedSortFields.includes(sortBy) ? sortBy : default
SortField(allowed, sortBy, default) == IF sortBy \in allowed THEN sortBy ELSE default

\* sortField === 'createdAt' -> 'created_at', and the like
SnakeSortField(sortField, camel) ==
    IF sortField \notin camel THEN sortField
    ELSE CASE sortField = "createdAt" -> "created_at"
           [] sortField = "updatedAt" -> "updated_at"
           [] sortField = "topicsCount" -> "topics_count"
           [] sortField = "effectiveDate" -> "effective_date"

\* GET /api/topics: sort = 'created_at', order = 'DESC' by default
TopicsOrderBy(sort, order) ==
    LET validSortColumns == {"created_at", "updated_at", "title", "view_count",
                             "enrollment_count", "published_at"}
    IN  [column |-> SortField(validSortColumns, IF sort = "" THEN "created_at" ELSE sort,
                              "created_at"),
         direction |-> IF ToLowerCase(IF order = "" THEN "DESC" ELSE order) = "asc"
                       THEN "ASC" ELSE "DESC"]

\* GET /api/categories
CategoriesOrderBy(sortBy, sortOrder) ==
    LET allowedSortFields == {"id", "name", "description", "status", "topicsCount",
                              "topics_count", "createdAt", "created_at", "updatedAt",
                              "updated_at"}
        sortField == SortField(allowedSortFields, IF sortBy = "" THEN "id" ELSE sortBy, "id")
    IN  [column |-> SnakeSortField(sortField, {"createdAt", "updatedAt", "topicsCount"}),
         direction |-> IF sortOrder = "desc" THEN "DESC" ELSE "ASC"]

\* GET /api/subcategories
SubcategoriesOrderBy(sortBy, sortOrder) ==
    LET allowedSortFields == {"id", "name", "category_id", "createdAt", "created_at"}
        sortField == SortField(allowedSortFields, IF sortBy = "" THEN "id" ELSE sortBy, "id")
    IN  [column |-> SnakeSortField(sortField, {"createdAt"}),
         direction |-> IF sortOrder = "desc" THEN "DESC" ELSE "ASC"]

\* GET /api/terms and GET /api/privacy
TermsOrderBy(sortBy, sortOrder) ==
    LET allowedSortFields == {"id", "title", "version", "language", "status",
                              "effective_date", "effectiveDate", "created_at",
                              "createdAt", "updated_at", "updatedAt"}
        sortField == SortField(allowedSortFields, IF sortBy = "" THEN "id" ELSE sortBy, "id")
    IN  [column |-> SnakeSortField(sortField, {"effectiveDate", "createdAt", "updatedAt"}),
         direction |-> IF sortOrder = "desc" THEN "DESC" ELSE "ASC"]

ListRoutes ==
    {"GET /topics", "GET /categories", "GET /subcategories", "GET /terms", "GET /privacy"}

\* a list request: the handler builds its query and answers with the rows; the
\* answer keeps the query parameters and the ORDER BY clause built from them
ListRequest(s, route, sortBy, sortOrder) ==
    /\ req[s].pc = "idle"
    /\ req' = [req EXCEPT ![s] =
                 [route |-> route, pc |-> "done", id |-> 0, status |-> 200,
                  query |-> [sortBy |-> sortBy, sortOrder |-> sortOrder],
                  orderBy |-> CASE route = "GET /topics" -> TopicsOrderBy(sortBy, sortOrder)
                                [] route = "GET /categories" ->
                                     CategoriesOrderBy(sortBy, sortOrder)
                                [] route = "GET /subcategories" ->
                                     SubcategoriesOrderBy(sortBy, sortOrder)
                                [] OTHER -> TermsOrderBy(sortBy, sortOrder)]]
    /\ UNCHANGED <<topics, modules, videos, catalog, seq, created>>

\* sort texts: column names in both spellings, a wrong case, a stranger's column
\* and an injection; direction texts likewise
SortTexts ==
    {"", "id", "name", "title", "status", "created_at", "createdAt", "updatedAt",
     "topicsCount", "effectiveDate", "category_id", "published_at", "ID", "password",
     "id; DROP TABLE topics"}

OrderTexts == {"", "asc", "ASC", "Asc", "desc", "DESC", "asc; DROP TABLE topics"}

NextList ==
    \/ \E route \in ListRoutes, sortBy \in SortTexts, sortOrder \in OrderTexts :
          ListRequest(1, route, sortBy, sortOrder)
    \/ Finish(1)

SpecList == Init /\ [][NextList]_vars

\* the columns a list endpoint may sort by, and its default
OrderByColumns(route) ==
    CASE route = "GET /topics" ->
            {"created_at", "updated_at", "title", "view_count", "enrollment_count",
             "published_at"}
      [] route = "GET /categories" ->
            {"id", "name", "description", "status", "topics_count", "created_at",
             "updated_at"}
      [] route = "GET /subcategories" -> {"id", "name", "category_id", "created_at"}
      [] OTHER ->
            {"id", "title", "version", "language", "status", "effective_date",
             "created_at", "updated_at"}

\* C18: for every list endpoint and every sort and direction text, the column of
\* the ORDER BY clause is one of the endpoint's fixed columns and the direction
\* is ASC or DESC; a text that is no known column gives the default column.
C18_OrderByFromAllowList ==
    \A s \in Slots :
        (req[s].pc = "done" /\ req[s].route \in ListRoutes)
        => LET r == req[s]
               default == IF r.route = "GET /topics" THEN "created_at" ELSE "id"
           IN  /\ r.orderBy.column \in OrderByColumns(r.route)
               /\ r.orderBy.direction \in {"ASC", "DESC"}
               /\ r.query.sortBy \in {"ID", "password", "id; DROP TABLE topics"}
                     => r.orderBy.column = default

\* a list request whose sort and direction carry SQL text is sorted by the
\* default column
C18_Witness ==
    \E s \in Slots :
        /\ req[s].pc = "done"
        /\ req[s].route = "GET /categories"
        /\ req[s].query = [sortBy |-> "id; DROP TABLE topics",
                           sortOrder |-> "asc; DROP TABLE topics"]
        /\ req[s].orderBy = [column |-> "id", direction |-> "ASC"]

(***************************************************************************)
(* The handlers that build the SET clause of an UPDATE from the keys of    *)
(* the request body: PUT /api/topics/:id above, the module's PUT and the   *)
(* legacy user update.                                                     *)
(***************************************************************************)
ModuleAllowedFields == {"title", "description", "order_index", "is_active", "duration_minutes"}

\* the columns of the SET clause that the module's PUT builds from the body
ModuleUpdateFields(keys) ==
    IncludedFields({SnakeCase(key) : key \in keys}, ModuleAllowedFields)

ModuleUpdateRequest(id, body, status, pc) ==
    [route |-> "PUT /topics/:topicId/modules/:moduleId", pc |-> pc, id |-> id,
     status |-> status, body |-> body, updateFields |-> {}]

\* PUT /api/topics/:topicId/modules/:moduleId, up to its UPDATE: the SELECT of the
\* module, 404 without it, the SET clause, 400 when no key of the body is a
\* column of the allow-list
ModuleUpdateReceive(s, topicId, moduleId, body) ==
    /\ req[s].pc = "idle"
    /\ req' = [req EXCEPT ![s] =
                 IF moduleId \notin DOMAIN modules \/ modules[moduleId].topic_id # topicId
                 THEN ModuleUpdateRequest(moduleId, body, 404, "done")
                 ELSE IF ModuleUpdateFields(body.keys) = {}
                 THEN ModuleUpdateRequest(moduleId, body, 400, "done")
                 ELSE [ModuleUpdateRequest(moduleId, body, 0, "moduleUpdate")
                         EXCEPT !.updateFields = ModuleUpdateFields(body.keys)]]
    /\ UNCHANGED <<topics, modules, videos, catalog, seq, created>>

\* UPDATE topic_modules SET ... WHERE id = $n RETURNING *
ModuleUpdateExec(s) ==
    /\ req[s].pc = "moduleUpdate"
    /\ LET r == req[s]
           fields == r.updateFields
           named == {key \in r.body.keys : SnakeCase(key) \in fields}
       IN  IF Cardinality(named) # Cardinality(fields)
           THEN \* two keys of one column: multiple assignments to the same column
                /\ req' = [req EXCEPT ![s] = [r EXCEPT !.pc = "done", !.status = 500]]
                /\ UNCHANGED modules
           ELSE IF r.id \notin DOMAIN modules
           THEN \* no row is returned and the response reads an undefined module
                /\ req' = [req EXCEPT ![s] = [r EXCEPT !.pc = "done", !.status = 500]]
                /\ UNCHANGED modules
           ELSE /\ modules' =
                     [modules EXCEPT ![r.id] =
                        [@ EXCEPT !.order_index = IF "order_index" \in fields
                                                  THEN r.body.order_index ELSE @,
                                  !.duration_minutes = IF "duration_minutes" \in fields
                                                       THEN r.body.duration_minutes
                                                       ELSE @]]
                /\ req' = [req EXCEPT ![s] = [r EXCEPT !.pc = "done", !.status = 200]]
    /\ UNCHANGED <<topics, videos, catalog, seq, created>>

\* CREATE TABLE users
UsersColumns == {"id", "email", "is_verified", "name", "address", "phone"}

\* a body key that carries an assignment of its own: SET is_verified = true, name = $1
AssignmentKey == "is_verified = true, name"

\* POST /users/update/:id (controller.updateUser): every key of the body becomes
\* "key = $i" of the SET clause. The statement fails on a key that is no column.
updateUser(s, id, body) ==
    /\ req[s].pc = "idle"
    /\ LET keys == body.keys
           done(status) == [route |-> "POST /users/update/:id", pc |-> "done", id |-> id,
                            status |-> status, body |-> body, updateFields |-> keys]
           columns == (keys \ {AssignmentKey})
                         \cup (IF AssignmentKey \in keys THEN {"is_verified", "name"} ELSE {})
       IN  IF keys = {}
           THEN /\ req' = [req EXCEPT ![s] = done(400)]
                /\ UNCHANGED users
           ELSE IF (keys \ {AssignmentKey}) \ UsersColumns # {}
                   \/ (AssignmentKey \in keys /\ {"is_verified", "name"} \cap keys # {})
           THEN \* column does not exist, or multiple assignments to the same column
                /\ req' = [req EXCEPT ![s] = done(500)]
                /\ UNCHANGED users
           ELSE /\ users' =
                     [u \in DOMAIN users |->
                        IF u # id THEN users[u]
                        ELSE [users[u] EXCEPT
                                !.name = IF "name" \in columns THEN body.name ELSE @,
                                !.is_verified =
                                    IF AssignmentKey \in keys THEN TRUE
                                    ELSE IF "is_verified" \in keys THEN body.is_verified
                                    ELSE @]]
                /\ req' = [req EXCEPT ![s] = done(200)]
    /\ UNCHANGED <<topics, modules, videos, category, subcategory, homepage, documents, codes,
                 seq, created>>

\* bodies of PUT /topics/:id: columns of the allow-list in both spellings, and
\* columns that are not on it
TopicSetKeys == {"description", "isFeatured", "featured", "viewCount", "view_count", "id"}

\* bodies of the module's PUT
ModuleSetKeys == {"orderIndex", "order_index", "durationMinutes", "topicId", "topic_id", "id"}

\* bodies of the user update
UserSetKeys == {"name", "is_verified", "password", AssignmentKey}

\* the sets of at most two of the keys
Pairs(keys) == {ks \in SUBSET keys : Cardinality(ks) <= 2}

NextSet ==
    \/ \E id \in 1..MaxTopicId, keys \in Pairs(TopicSetKeys) :
          PutReceive(1, id, PutBody(keys, <<>>, <<>>, "d1", 0))
    \/ PutUpdate(1)
    \/ \E topicId \in 1..2, moduleId \in 1..MaxModuleId, keys \in Pairs(ModuleSetKeys),
          order \in 1..2 :
          ModuleUpdateReceive(1, topicId, moduleId,
                              [keys |-> keys, order_index |-> order, duration_minutes |-> 5])
    \/ ModuleUpdateExec(1)
    \/ \E id \in 1..2, keys \in Pairs(UserSetKeys), name \in {"n1", "n2"} :
          updateUser(1, id, [keys |-> keys, name |-> name, is_verified |-> TRUE])
    \/ Finish(1)

SpecSet == Init /\ [][NextSet]_vars

UpdateRoutes ==
    {"PUT /topics/:id", "PUT /topics/:topicId/modules/:moduleId", "POST /users/update/:id"}

\* the columns the SET clause of an update route may name: the handler's
\* allow-list, and for the user update, which has none, the columns of its table
SetColumns(route) ==
    CASE route = "PUT /topics/:id" -> TopicAllowedFields
      [] route = "PUT /topics/:topicId/modules/:moduleId" -> ModuleAllowedFields
      [] route = "POST /users/update/:id" -> UsersColumns

\* C19: every update handler that builds its UPDATE from the keys of the body
\* keeps the SET clause within a fixed set of columns; a body key outside it
\* never appears in the statement.
C19_SetClauseWithinAllowList ==
    \A s \in Slots :
        (req[s].pc = "done" /\ req[s].route \in UpdateRoutes)
        => req[s].updateFields \subseteq SetColumns(req[s].route)

(***************************************************************************)
(* Terms and conditions, and privacy policies: the two routers are the     *)
(* same code over the tables terms_conditions and privacy_policies. A      *)
(* document is a row [status, effective_date]; effective_date "" is NULL.  *)
(***************************************************************************)
MaxDocumentId == 2

DocumentKinds == {"terms", "privacy"}

\* CHECK (status IN ('Draft', 'Active', 'Inactive', 'Archived'))
DocumentStatuses == {"Draft", "Active", "Inactive", "Archived"}

DocumentRoute(kind, op) ==
    CASE op = "create" -> IF kind = "terms" THEN "POST /terms" ELSE "POST /privacy"
      [] op = "update" -> IF kind = "terms" THEN "PUT /terms/:id" ELSE "PUT /privacy/:id"
      [] op = "delete" ->
            IF kind = "terms" THEN "DELETE /terms/:id" ELSE "DELETE /privacy/:id"
      [] op = "publish" ->
            IF kind = "terms" THEN "POST /terms/:id/publish"
            ELSE "POST /privacy/:id/publish"

DocumentRequest(kind, op, id, status, pc, error) ==
    [route |-> DocumentRoute(kind, op), pc |-> pc, kind |-> kind, id |-> id,
     status |-> status, error |-> error]

\* status && validStatuses.includes(status) ? status : 'Draft'
DocumentStatus(status) == IF status \in DocumentStatuses THEN status ELSE "Draft"

\* POST /api/terms and POST /api/privacy; valid: title, content and version given
DocumentCreate(s, kind, valid, status, effectiveDate) ==
    /\ req[s].pc = "idle"
    /\ IF ~valid
       THEN /\ req' = [req EXCEPT ![s] =
                         DocumentRequest(kind, "create", 0, 400, "done", "required")]
            /\ UNCHANGED <<documents, seq>>
       ELSE /\ seq[kind] <= MaxDocumentId
            /\ documents' = [documents EXCEPT ![kind] =
                               @ @@ (seq[kind] :> [status |-> DocumentStatus(status),
                                                   effective_date |-> effectiveDate])]
            /\ seq' = [seq EXCEPT ![kind] = @ + 1]
            /\ req' = [req EXCEPT ![s] =
                         DocumentRequest(kind, "create", seq[kind], 201, "done", "")]
    /\ UNCHANGED <<topics, modules, videos, category, subcategory, homepage, users, codes,
                 created>>

\* PUT /api/terms/:id and PUT /api/privacy/:id, up to the UPDATE
DocumentUpdateReceive(s, kind, id, valid, status, effectiveDate) ==
    /\ req[s].pc = "idle"
    /\ req' = [req EXCEPT ![s] =
                 IF id = 0 \/ ~valid
                 THEN DocumentRequest(kind, "update", id, 400, "done", "required")
                 ELSE IF id \notin DOMAIN documents[kind]
                 THEN DocumentRequest(kind, "update", id, 404, "done", "not found")
                 ELSE DocumentRequest(kind, "update", id, 0, "docUpdate", "")
                         @@ [set |-> [status |-> DocumentStatus(status),
                                      effective_date |-> effectiveDate],
                             body |-> [status |-> status]]]
    /\ UNCHANGED <<topics, modules, videos, catalog, seq, created>>

\* UPDATE ... SET title = $1, ..., status = $5, effective_date = $6 ... RETURNING *
DocumentUpdateExec(s) ==
    /\ req[s].pc = "docUpdate"
    /\ LET r == req[s]
       IN  IF r.id \notin DOMAIN documents[r.kind]
           THEN \* no row: throw new Error('Failed to update ...')
                /\ req' = [req EXCEPT ![s] =
                             [r EXCEPT !.pc = "done", !.status = 500,
                                       !.error = "Failed to update"]]
                /\ UNCHANGED documents
           ELSE /\ documents' = [documents EXCEPT ![r.kind][r.id] = r.set]
                /\ req' = [req EXCEPT ![s] = [r EXCEPT !.pc = "done", !.status = 200]]
    /\ UNCHANGED <<topics, modules, videos, category, subcategory, homepage, users, codes,
                 seq, created>>

\* DELETE /api/terms/:id and DELETE /api/privacy/:id, up to the DELETE
DocumentDeleteReceive(s, kind, id) ==
    /\ req[s].pc = "idle"
    /\ req' = [req EXCEPT ![s] =
                 IF id = 0
                 THEN DocumentRequest(kind, "delete", id, 400, "done", "required")
                 ELSE IF id \notin DOMAIN documents[kind]
                 THEN DocumentRequest(kind, "delete", id, 404, "done", "not found")
                 ELSE DocumentRequest(kind, "delete", id, 0, "docDelete", "")]
    /\ UNCHANGED <<topics, modules, videos, catalog, seq, created>>

\* DELETE FROM ... WHERE id = $1
DocumentDeleteExec(s) ==
    /\ req[s].pc = "docDelete"
    /\ documents' = [documents EXCEPT ![req[s].kind] =
                       Restrict(@, DOMAIN @ \ {req[s].id})]
    /\ req' = [req EXCEPT ![s] = [req[s] EXCEPT !.pc = "done", !.status = 200]]
    /\ UNCHANGED <<topics, modules, videos, category, subcategory, homepage, users, codes,
                 seq, created>>

AlreadyActive(kind) ==
    IF kind = "terms" THEN "Terms and conditions are already active/published"
    ELSE "Privacy policy is already active/published"

ArchivedNotPublished(kind) ==
    IF kind = "terms" THEN "Archived terms and conditions cannot be published"
    ELSE "Archived privacy policy cannot be published"

\* a publish route that refuses the active document only
RefusalOfActive(kind, currentStatus) ==
    IF currentStatus = "Active" THEN AlreadyActive(kind) ELSE ""

\* the two tests of currentStatus in the publish route: the error of the 400
\* answer, "" when the document can be published
Refusal(kind, currentStatus) ==
    CASE currentStatus = "Active" -> AlreadyActive(kind)
      [] currentStatus = "Archived" -> ArchivedNotPublished(kind)
      [] OTHER -> ""

\* POST /api/terms/:id/publish and POST /api/privacy/:id/publish, up to the UPDATE
DocumentPublishReceive(s, kind, id, effectiveDate) ==
    /\ req[s].pc = "idle"
    /\ req' = [req EXCEPT ![s] =
                 IF id = 0
                 THEN DocumentRequest(kind, "publish", id, 400, "done", "ID is required")
                 ELSE IF id \notin DOMAIN documents[kind]
                 THEN DocumentRequest(kind, "publish", id, 404, "done", "not found")
                 ELSE IF Refusal(kind, documents[kind][id].status) # ""
                 THEN DocumentRequest(kind, "publish", id, 400, "done",
                                      Refusal(kind, documents[kind][id].status))
                 ELSE \* effectiveDate || new Date().toISOString().split('T')[0]
                      DocumentRequest(kind, "publish", id, 0, "docPublish", "")
                         @@ [publishEffectiveDate |->
                               IF effectiveDate = "" THEN "today" ELSE effectiveDate]]
    /\ UNCHANGED <<topics, modules, videos, catalog, seq, created>>

\* UPDATE ... SET status = 'Active', effective_date = $1 ... WHERE id = $3 RETURNING *
DocumentPublishExec(s) ==
    /\ req[s].pc = "docPublish"
    /\ LET r == req[s]
       IN  IF r.id \notin DOMAIN documents[r.kind]
           THEN \* no row: throw new Error('Failed to publish ...')
                /\ req' = [req EXCEPT ![s] =
                             [r EXCEPT !.pc = "done", !.status = 500,
                                       !.error = "Failed to publish"]]
                /\ UNCHANGED documents
           ELSE /\ documents' = [documents EXCEPT ![r.kind][r.id] =
                                   [status |-> "Active",
                                    effective_date |-> r.publishEffectiveDate]]
                /\ req' = [req EXCEPT ![s] = [r EXCEPT !.pc = "done", !.status = 200]]
    /\ UNCHANGED <<topics, modules, videos, category, subcategory, homepage, users, codes,
                 seq, created>>

\* publish requests on slot 1; creations, updates and deletions on slot 2
NextDocs ==
    \/ \E kind \in DocumentKinds, id \in 0..MaxDocumentId :
          DocumentPublishReceive(1, kind, id, "")
    \/ DocumentPublishExec(1)
    \/ \E kind \in DocumentKinds, valid \in BOOLEAN,
          status \in {"", "Archived", "Published"} :
          DocumentCreate(2, kind, valid, status, "")
    \/ \E kind \in DocumentKinds, id \in 0..MaxDocumentId, valid \in BOOLEAN,
          status \in {"", "Inactive", "Archived"} :
          DocumentUpdateReceive(2, kind, id, valid, status, "")
    \/ DocumentUpdateExec(2)
    \/ \E kind \in DocumentKinds, id \in 0..MaxDocumentId :
          DocumentDeleteReceive(2, kind, id)
    \/ DocumentDeleteExec(2)
    \/ \E s \in Slots : Finish(s)

SpecDocs == Init /\ [][NextDocs]_vars

PublishRoutes == {"POST /terms/:id/publish", "POST /privacy/:id/publish"}

\* C20: a publish request that finds its document Archived is answered 400 with
\* the message that archived documents cannot be published, and the tables of
\* the documents are left as they were.
C20_ArchivedNotPublished ==
    [][\A s \in Slots, kind \in DocumentKinds, id \in 1..MaxDocumentId :
          (/\ req[s].pc = "idle"
           /\ req'[s].pc # "idle"
           /\ req'[s].route = DocumentRoute(kind, "publish")
           /\ req'[s].id = id
           /\ id \in DOMAIN documents[kind]
           /\ documents[kind][id].status = "Archived")
          => /\ req'[s].pc = "done"
             /\ req'[s].status = 400
             /\ req'[s].error = ArchivedNotPublished(kind)
             /\ documents' = documents]_vars

\* an Archived privacy policy whose publication was refused with 400
C20_Witness ==
    \E s \in Slots :
        /\ req[s].pc = "done"
        /\ req[s].route = "POST /privacy/:id/publish"
        /\ req[s].status = 400
        /\ req[s].error = "Archived privacy policy cannot be published"
        /\ req[s].id \in DOMAIN documents.privacy
        /\ documents.privacy[req[s].id].status = "Archived"

(***************************************************************************)
(* One-time codes: POST /auth/send-otp and POST /auth/verify-otp. Both run *)
(* their statements on the pool, one by one, outside any transaction.      *)
(***************************************************************************)
MaxUserId == 2

MaxOtpId == 2

MaxClock == 3

\* expiresAt = Date.now() + 10 * 60 * 1000, in ticks of the clock
OtpLifetime == 2

\* the texts an email field takes: absent, no address, and two addresses
Emails == {"", "bad", "e1", "e2"}

\* /^[^@\s]+@[^@\s]+\.[^@\s]+$/.test(email), on the texts of the model
ValidEmail(email) == email \in {"e1", "e2"}

\* Math.floor(100000 + Math.random() * 900000).toString(): one of the codes
OtpCodes == {"a", "b"}

\* SELECT ... FROM users WHERE email = $1
UsersByEmail(email) == {u \in DOMAIN users : users[u].email = email}

OtpRequest(route, pc, status, email, otp) ==
    [route |-> route, pc |-> pc, id |-> 0, status |-> status, email |-> email,
     otp |-> otp, userId |-> 0, otpId |-> 0, superseded |-> FALSE]

\* time passes
Tick ==
    /\ now < MaxClock
    /\ now' = now + 1
    /\ UNCHANGED <<topics, modules, videos, category, subcategory, homepage, users, documents,
                   otp_verifications, seq, req, created>>

\* POST /auth/send-otp, up to the statement that follows the SELECT of the user
SendOtpReceive(s, email) ==
    /\ req[s].pc = "idle"
    /\ req' = [req EXCEPT ![s] =
                 IF ~ValidEmail(email)
                 THEN OtpRequest("POST /auth/send-otp", "done", 400, email, "")
                 ELSE IF UsersByEmail(email) # {}
                 THEN [OtpRequest("POST /auth/send-otp", "otpInsert", 0, email, "")
                         EXCEPT !.userId = CHOOSE u \in UsersByEmail(email) : TRUE]
                 ELSE OtpRequest("POST /auth/send-otp", "userInsert", 0, email, "")]
    /\ UNCHANGED <<topics, modules, videos, catalog, seq, created>>

\* INSERT INTO users (email, is_verified, name, address) VALUES ($1, false, ...)
SendOtpUserInsert(s) ==
    /\ req[s].pc = "userInsert"
    /\ seq.user <= MaxUserId
    /\ seq' = [seq EXCEPT !.user = @ + 1]
    /\ LET r == req[s]
       IN  IF UsersByEmail(r.email) # {}
           THEN \* duplicate key value violates the unique constraint on email
                /\ req' = [req EXCEPT ![s] = [r EXCEPT !.pc = "done", !.status = 500]]
                /\ UNCHANGED users
           ELSE /\ users' = users @@ (seq.user :> [email |-> r.email, is_verified |-> FALSE,
                                                   name |-> "OTPUser", address |-> "Unknown",
                                                   phone |-> ""])
                /\ req' = [req EXCEPT ![s] = [r EXCEPT !.pc = "otpInsert",
                                                       !.userId = seq.user]]
    /\ UNCHANGED <<topics, modules, videos, category, subcategory, homepage, documents, codes,
                   created>>

\* INSERT INTO otp_verifications (user_id, otp, expires_at) VALUES ($1, $2, $3)
SendOtpInsert(s, otp) ==
    /\ req[s].pc = "otpInsert"
    /\ seq.otp <= MaxOtpId
    /\ seq' = [seq EXCEPT !.otp = @ + 1]
    /\ otp_verifications' =
          otp_verifications @@ (seq.otp :> [user_id |-> req[s].userId, otp |-> otp,
                                            expires_at |-> now + OtpLifetime,
                                            created_at |-> now])
    /\ req' = [req EXCEPT ![s] = [req[s] EXCEPT !.pc = "sendMail", !.otp = otp,
                                                !.otpId = seq.otp]]
    /\ UNCHANGED <<topics, modules, videos, category, subcategory, homepage, users, documents,
                   now, created>>

\* transporter.sendMail: 200 when the mail is sent, 500 when it is not; the code
\* stays stored either way
SendOtpMail(s, sent) ==
    /\ req[s].pc = "sendMail"
    /\ req' = [req EXCEPT ![s] = [req[s] EXCEPT !.pc = "done",
                                                !.status = IF sent THEN 200 ELSE 500]]
    /\ UNCHANGED <<topics, modules, videos, catalog, seq, created>>

\* POST /auth/verify-otp, up to the SELECT of the code
VerifyOtpReceive(s, email, otp) ==
    /\ req[s].pc = "idle"
    /\ req' = [req EXCEPT ![s] =
                 IF email = "" \/ otp = ""
                 THEN OtpRequest("POST /auth/verify-otp", "done", 400, email, otp)
                 ELSE IF UsersByEmail(email) = {}
                 THEN OtpRequest("POST /auth/verify-otp", "done", 400, email, otp)
                 ELSE [OtpRequest("POST /auth/verify-otp", "otpSelect", 0, email, otp)
                         EXCEPT !.userId = CHOOSE u \in UsersByEmail(email) : TRUE]]
    /\ UNCHANGED <<topics, modules, videos, catalog, seq, created>>

\* the rows of SELECT * FROM otp_verifications WHERE user_id = $1 AND otp = $2
\* that ORDER BY created_at DESC LIMIT 1 may return
NewestOtp(userId, otp) ==
    LET rows == {o \in DOMAIN otp_verifications :
                    /\ otp_verifications[o].user_id = userId
                    /\ otp_verifications[o].otp = otp}
    IN  {o \in rows : \A p \in rows :
                         otp_verifications[p].created_at <= otp_verifications[o].created_at}

\* new Date() > new Date(otpRes.rows[0].expires_at)
Expired(expires_at) == now > expires_at

\* the SELECT of the code and the test of its expiry
VerifyOtpSelect(s) ==
    /\ req[s].pc = "otpSelect"
    /\ LET r == req[s]
           found == NewestOtp(r.userId, r.otp)
       IN  IF found = {}
           THEN req' = [req EXCEPT ![s] = [r EXCEPT !.pc = "done", !.status = 400]]
           ELSE \E o \in found :
                   IF Expired(otp_verifications[o].expires_at)
                   THEN req' = [req EXCEPT ![s] = [r EXCEPT !.pc = "done", !.status = 400]]
                   ELSE req' = [req EXCEPT ![s] =
                                  [r EXCEPT !.pc = "verifyUpdate", !.otpId = o,
                                            \* for the properties: a later code of
                                            \* the user is stored
                                            !.superseded =
                                               \E p \in DOMAIN otp_verifications :
                                                  /\ otp_verifications[p].user_id = r.userId
                                                  /\ p > o]]
    /\ UNCHANGED <<topics, modules, videos, catalog, seq, created>>

\* UPDATE users SET is_verified = true WHERE id = $1
VerifyOtpUpdate(s) ==
    /\ req[s].pc = "verifyUpdate"
    /\ users' = [u \in DOMAIN users |->
                   IF u = req[s].userId THEN [users[u] EXCEPT !.is_verified = TRUE]
                   ELSE users[u]]
    /\ req' = [req EXCEPT ![s] = [req[s] EXCEPT !.pc = "verifyUser"]]
    /\ UNCHANGED <<topics, modules, videos, category, subcategory, homepage, documents, codes,
                   seq, created>>

\* SELECT * FROM users WHERE id = $1, and the session token
VerifyOtpUser(s) ==
    /\ req[s].pc = "verifyUser"
    /\ req' = [req EXCEPT ![s] =
                 IF req[s].userId \in DOMAIN users
                 THEN [req[s] EXCEPT !.pc = "otpDelete"]
                 ELSE \* user is undefined: user.id throws
                      [req[s] EXCEPT !.pc = "done", !.status = 500]]
    /\ UNCHANGED <<topics, modules, videos, catalog, seq, created>>

\* DELETE FROM otp_verifications WHERE id = $1, and the answer
VerifyOtpDelete(s) ==
    /\ req[s].pc = "otpDelete"
    /\ otp_verifications' =
          Restrict(otp_verifications, DOMAIN otp_verifications \ {req[s].otpId})
    /\ req' = [req EXCEPT ![s] = [req[s] EXCEPT !.pc = "done", !.status = 200]]
    /\ UNCHANGED <<topics, modules, videos, category, subcategory, homepage, users, documents,
                   now, seq, created>>

\* codes are sent on slot 1 and verified on both slots
NextOtp ==
    \/ \E email \in Emails : SendOtpReceive(1, email)
    \/ SendOtpUserInsert(1)
    \/ \E otp \in OtpCodes : SendOtpInsert(1, otp)
    \/ \E sent \in BOOLEAN : SendOtpMail(1, sent)
    \/ \E s \in Slots, email \in {"", "e1", "e2"}, otp \in OtpCodes \cup {""} :
          VerifyOtpReceive(s, email, otp)
    \/ \E s \in Slots : VerifyOtpSelect(s)
    \/ \E s \in Slots : VerifyOtpUpdate(s)
    \/ \E s \in Slots : VerifyOtpUser(s)
    \/ \E s \in Slots : VerifyOtpDelete(s)
    \/ \E s \in Slots : Finish(s)
    \/ Tick

SpecOtp == Init /\ [][NextOtp]_vars

Verified(s) ==
    /\ req[s].pc = "done"
    /\ req[s].route = "POST /auth/verify-otp"
    /\ req[s].status = 200

\* C21: once a newer code has been issued to a user, a verification that finds
\* an older code of that user fails.
C21_NewerOtpSupersedes == \A s \in Slots : Verified(s) => ~req[s].superseded

\* C25: a stored code yields at most one successful verification: two verify-otp
\* requests, concurrent ones included, never both succeed on one row of
\* otp_verifications.
C25_OneVerificationPerOtp ==
    ~(Verified(1) /\ Verified(2) /\ req[1].otpId = req[2].otpId)

(***************************************************************************)
(* The pagination of the list endpoints. page and limit are the numbers    *)
(* the query gives; both are at least 1 here.                              *)
(***************************************************************************)
MaxPage == 3

MaxLimit == 2

\* Math.ceil(total / limit)
Ceil(total, limit) == (total + limit - 1) \div limit

\* the number of rows that LIMIT limit OFFSET (page - 1) * limit returns of n
PageRows(n, page, limit) ==
    LET offset == (page - 1) * limit
    IN  IF n <= offset THEN 0 ELSE IF n - offset < limit THEN n - offset ELSE limit

\* GET /api/topics: one statement; total_count is the window count COUNT(*) OVER()
\* carried by each row it returns, read from the first row
TopicsList(s, status, sort, order, page, limit) ==
    /\ req[s].pc = "idle"
    /\ LET matching == {id \in DOMAIN topics : status = "" \/ topics[id].status = status}
           rows == PageRows(Cardinality(matching), page, limit)
           totalCount == IF rows > 0 THEN Cardinality(matching) ELSE 0
       IN  req' = [req EXCEPT ![s] =
                     [route |-> "GET /topics", pc |-> "done", id |-> 0, status |-> 200,
                      query |-> [sortBy |-> sort, sortOrder |-> order, status |-> status],
                      orderBy |-> TopicsOrderBy(sort, order), rows |-> rows,
                      pagination |-> [page |-> page, limit |-> limit, total |-> totalCount,
                                      totalPages |-> Ceil(totalCount, limit)]]]
    /\ UNCHANGED <<topics, modules, videos, catalog, seq, created>>

\* GET /api/categories: the page and SELECT COUNT(*) as total FROM category, sent
\* together
CategoriesList(s, sortBy, sortOrder, page, limit) ==
    /\ req[s].pc = "idle"
    /\ LET total == Cardinality(DOMAIN category)
       IN  req' = [req EXCEPT ![s] =
                     [route |-> "GET /categories", pc |-> "done", id |-> 0, status |-> 200,
                      query |-> [sortBy |-> sortBy, sortOrder |-> sortOrder, status |-> ""],
                      orderBy |-> CategoriesOrderBy(sortBy, sortOrder),
                      rows |-> PageRows(total, page, limit),
                      pagination |-> [page |-> page, limit |-> limit, total |-> total,
                                      totalPages |-> Ceil(total, limit)]]]
    /\ UNCHANGED <<topics, modules, videos, catalog, seq, created>>

\* lists on slot 1; publications and deletions of topics and creations of
\* categories on slot 2
NextPage ==
    \/ \E status \in {"", "draft", "published"}, page \in 1..MaxPage, limit \in 1..MaxLimit :
          TopicsList(1, status, "", "", page, limit)
    \/ \E page \in 1..MaxPage, limit \in 1..MaxLimit : CategoriesList(1, "", "", page, limit)
    \/ \E id \in 1..2 : TopicPublish(2, id)
    \/ \E id \in 1..2 : TopicDelete(2, id)
    \/ CategoryCreate(2, TRUE, TRUE, "")
    \/ \E s \in Slots : Finish(s)

SpecPage == Init /\ [][NextPage]_vars

\* the number of rows that match the filters of a list request
Matching(r) ==
    IF r.route = "GET /topics"
    THEN Cardinality({id \in DOMAIN topics :
                         r.query.status = "" \/ topics[id].status = r.query.status})
    ELSE Cardinality(DOMAIN category)

\* C23: a list response reports total as the number of rows that match the
\* filters and totalPages as ceil(total / limit), whichever page is asked for,
\* a page past the last one included.
C23_TotalIsMatchingCount ==
    [][\A s \in Slots :
          (/\ req[s].pc = "idle"
           /\ req'[s].pc = "done"
           /\ req'[s].route \in {"GET /topics", "GET /categories"})
          => /\ req'[s].pagination.total = Matching(req'[s])
             /\ req'[s].pagination.totalPages =
                   Ceil(Matching(req'[s]), req'[s].pagination.limit)]_vars

(***************************************************************************)
(* SpecTwin: one POST /api/topics on each of the two slots, with any       *)
(* titles, interleaved statement by statement.                             *)
(***************************************************************************)
NextTwin ==
    \/ \E s \in Slots, t \in Titles : TopicCreateReceive(s, t, 0, 0, "")
    \/ \E s \in Slots : TopicCreateSlugCheck(s)
    \/ \E s \in Slots : TopicCreateInsert(s)
    \/ \E s \in Slots : TopicCreateCommit(s)

SpecTwin == Init /\ [][NextTwin]_vars

Answered(s) ==
    /\ req[s].pc = "done"
    /\ req[s].route = "POST /topics"
    /\ req[s].status # 400

\* C26: two POST /api/topics requests with the same title that run together both
\* answer 201, and the two topics they created have distinct slugs.
C26_TwinCreatesBothSucceed ==
    (Answered(1) /\ Answered(2) /\ req[1].title = req[2].title)
    => /\ req[1].status = 201
       /\ req[2].status = 201
       /\ topics[req[1].id].slug # topics[req[2].id].slug

(***************************************************************************)
(* POST /api/topics/:id/duplicate                                          *)
(***************************************************************************)
\* ' (Copy)'
CopySuffix == <<" ", "(", "C", "o", "p", "y", ")">>

\* the $n of the VALUES list of the INSERT: $1 to $7, 'draft', false, $9 to $17
DuplicatePlaceholders == (1..7) \cup (9..17)

\* the number of values the handler passes with the INSERT
DuplicateValues == 16

\* the server takes a statement whose placeholders are $1 to $n, each of them
\* used, with n values bound; otherwise the statement throws
StatementAccepted(placeholders, nValues) == placeholders = 1..nValues

\* the SELECT of the original, 404 without it, the new title and its slug
TopicDuplicateReceive(s, id) ==
    /\ req[s].pc = "idle"
    /\ req' = [req EXCEPT ![s] =
                 IF id \notin DOMAIN topics
                 THEN TopicRequest("POST /topics/:id/duplicate", id, 404)
                 ELSE LET newTitle == topics[id].title \o CopySuffix
                      IN  [route |-> "POST /topics/:id/duplicate", pc |-> "dupSlug",
                           id |-> id, status |-> 0, topic |-> topics[id],
                           title |-> newTitle, baseSlug |-> generateSlug(newTitle),
                           slug |-> generateSlug(newTitle), counter |-> 1, newId |-> 0]]
    /\ UNCHANGED <<topics, modules, videos, catalog, seq, created>>

\* one turn of the slug loop of the duplicate
TopicDuplicateSlugCheck(s) ==
    /\ req[s].pc = "dupSlug"
    /\ LET r == req[s]
       IN  IF SlugInUse(topics, r.slug, {})
           THEN req' = [req EXCEPT ![s] =
                          [r EXCEPT !.slug = Suffixed(r.baseSlug, r.counter),
                                    !.counter = @ + 1]]
           ELSE req' = [req EXCEPT ![s] = [r EXCEPT !.pc = "dupInsert"]]
    /\ UNCHANGED <<topics, modules, videos, catalog, seq, created>>

\* INSERT INTO topics (...) VALUES ($1, ..., $7, 'draft', false, $9, ..., $17)
TopicDuplicateInsert(s) ==
    /\ req[s].pc = "dupInsert"
    /\ LET r == req[s]
       IN  IF ~StatementAccepted(DuplicatePlaceholders, DuplicateValues)
           THEN \* the statement throws before it runs: 500, no id is drawn
                /\ req' = [req EXCEPT ![s] = [r EXCEPT !.pc = "done", !.status = 500]]
                /\ UNCHANGED <<topics, seq>>
           ELSE /\ seq.topic <= MaxTopicId
                /\ ~SlugHeld(s, r.slug)
                /\ seq' = [seq EXCEPT !.topic = @ + 1]
                /\ IF SlugConflict(topics, seq.topic, r.slug)
                   THEN /\ req' = [req EXCEPT ![s] =
                                     [r EXCEPT !.pc = "done", !.status = 500]]
                        /\ UNCHANGED topics
                   ELSE /\ topics' = topics @@
                              (seq.topic :> [r.topic EXCEPT !.title = r.title,
                                                            !.slug = r.slug,
                                                            !.status = "draft",
                                                            !.published_at = 0])
                        /\ req' = [req EXCEPT ![s] =
                                     [r EXCEPT !.pc = "done", !.status = 201,
                                               !.newId = seq.topic]]
    /\ UNCHANGED <<modules, videos, catalog, created>>

\* duplications on slot 1; publications, archivings and deletions on slot 2
NextDup ==
    \/ \E id \in 1..MaxTopicId : TopicDuplicateReceive(1, id)
    \/ TopicDuplicateSlugCheck(1)
    \/ TopicDuplicateInsert(1)
    \/ \E id \in 1..2 : TopicPublish(2, id)
    \/ \E id \in 1..2 : TopicArchive(2, id)
    \/ \E id \in 1..2 : TopicDelete(2, id)
    \/ \E s \in Slots : Finish(s)

SpecDup == Init /\ [][NextDup]_vars

\* C28: POST /api/topics/:id/duplicate on an existing topic answers 201 and
\* creates one new topic titled '<original title> (Copy)', with status 'draft' and
\* a slug no other topic has, and leaves the original as it was.
C28_DuplicateCreatesCopy ==
    \A s \in Slots :
        (req[s].pc = "done" /\ req[s].route = "POST /topics/:id/duplicate"
            /\ req[s].status # 404)
        => LET r == req[s]
           IN  /\ r.status = 201
               /\ r.newId \in DOMAIN topics
               /\ r.newId # r.id
               /\ topics[r.newId].title = r.topic.title \o CopySuffix
               /\ topics[r.newId].status = "draft"
               /\ \A o \in DOMAIN topics \ {r.newId} : topics[o].slug # topics[r.newId].slug

(***************************************************************************)
(* PUT of a category or of a document with a body that has no status       *)
(***************************************************************************)
\* categories on slot 1, terms and privacy documents on slot 2
NextKeep ==
    \/ \E status \in {"", "Inactive"} : CategoryCreate(1, TRUE, TRUE, status)
    \/ \E id \in 0..MaxCategoryId, named \in BOOLEAN, status \in {"", "Draft"} :
          CategoryUpdateReceive(1, id, named, TRUE, status)
    \/ CategoryUpdateExec(1)
    \/ \E kind \in DocumentKinds, status \in {"", "Published"} :
          DocumentCreate(2, kind, TRUE, status, "")
    \/ \E kind \in DocumentKinds, id \in 0..MaxDocumentId, status \in {"", "Archived"} :
          DocumentUpdateReceive(2, kind, id, TRUE, status, "")
    \/ DocumentUpdateExec(2)
    \/ \E s \in Slots : Finish(s)

SpecKeep == Init /\ [][NextKeep]_vars

\* C29: the UPDATE of a PUT whose body has no status leaves the status of the
\* category, terms or privacy row it updates as it was.
C29_StatusKeptWithoutStatusField ==
    [][\A s \in Slots :
          /\ (/\ req[s].pc = "updateCategory"
              /\ req'[s].pc = "done"
              /\ req'[s].status = 200
              /\ req[s].body.status = "")
             => category'[req[s].id].status = category[req[s].id].status
          /\ (/\ req[s].pc = "docUpdate"
              /\ req'[s].pc = "done"
              /\ req'[s].status = 200
              /\ req[s].body.status = "")
             => documents'[req[s].kind][req[s].id].status
                   = documents[req[s].kind][req[s].id].status]_vars

(***************************************************************************)
(* SpecClient: the five handlers that take a client of the pool, one       *)
(* request after the other, each statement of which may throw.             *)
(***************************************************************************)
\* module entries and video entries without an order field
ClientModuleEntries == {e \in ModuleEntries : e.order = 0}

ClientVideoEntries == {e \in VideoEntries : e.order = 0 /\ e.duration = 0}

NextClient ==
    \/ \E n \in 0..1, v \in 0..1 : TopicCreateReceive(1, <<"c">>, n, v, "")
    \/ TopicCreateSlugCheck(1)
    \/ TopicCreateInsert(1)
    \/ TopicCreateModule(1)
    \/ TopicCreateVideo(1)
    \/ TopicCreateCommit(1)
    \/ TopicCreateError(1)
    \/ \E ids \in {<<1>>, <<2, 1>>} : ModuleReorderReceive(1, 1, TRUE, ids)
    \/ ModuleReorderUpdate(1)
    \/ \E ids \in {<<1>>, <<2, 1>>} : VideoReorderReceive(1, 1, TRUE, ids)
    \/ VideoReorderUpdate(1)
    \/ ReorderCommit(1)
    \/ ReorderError(1)
    \/ \E hasFaqs \in BOOLEAN : HomepageReceive(1, TRUE, "x", hasFaqs, 1)
    \/ HomepageStatement(1)
    \/ HomepageCommit(1)
    \/ HomepageFetch(1)
    \/ HomepageError(1)
    \/ PutReceive(1, 1, RaceBody(1))
    \/ PutUpdate(1)
    \/ PutBegin(1)
    \/ \E e \in ClientModuleEntries : PutModule(1, e)
    \/ \E e \in ClientVideoEntries : PutVideo(1, e)
    \/ PutVideosEnd(1)
    \/ PutModulesEnd(1)
    \/ PutStatementError(1)
    \/ Finish(1)

SpecClient == Init /\ [][NextClient]_vars

\* request r is between the connect of its handler and the finally block
HoldsClient(r) == r.pc \in {"modules", "videos", "createModules", "createVideos",
                            "reorderModules", "reorderVideos", "hp", "hpFetch"}

\* C30: a handler that has taken a client of the pool holds it, unreleased, up
\* to its finally block, and has released it exactly once when it is done: after
\* the COMMIT, after a ROLLBACK that follows a failed statement, and after a
\* ROLLBACK that has failed itself.
C30_ClientReleasedOnce ==
    /\ [](\A s \in Slots :
             /\ (req[s].pc # "idle" /\ HoldsClient(req[s]))
                => ("client" \in DOMAIN req[s] /\ req[s].client.released = 0)
             /\ (req[s].pc = "done" /\ "client" \in DOMAIN req[s])
                => req[s].client.released = 1)
    /\ [][\A s \in Slots :
             (req[s].pc # "idle" /\ HoldsClient(req[s]) /\ req'[s].pc = "done")
             => ("client" \in DOMAIN req'[s] /\ req'[s].client.released = 1)]_vars

\* a request is done whose ROLLBACK has failed, its client released once
C30_Witness ==
    \E s \in Slots :
        /\ req[s].pc = "done"
        /\ "client" \in DOMAIN req[s]
        /\ req[s].client.rollback = "failed"
        /\ req[s].client.released = 1

====
